---- MODULE Spec2Model ----
(***************************************************************************)
(* State-machine model of the imposter-game orchestration engine           *)
(* (ai_game_simulation/src/game_engine/engine.py) together with the pure   *)
(* validation functions it calls (game_engine/validation.py).              *)
(*                                                                         *)
(* Player ids "Player_1" .. "Player_N" are the integers 1 .. N; 0 is an id *)
(* no player has.  Text (the secret word, clues) is a sequence of          *)
(* one-character strings so that lower(), strip() and the substring test   *)
(* are computed, not assumed.                                              *)
(***************************************************************************)
EXTENDS Integers, Sequences, FiniteSets, TLC

\* ------------------------------------------------------------------ bounds
MaxPlayers == 3
MaxRounds == 2
\* Player count of the round-loop specification (SpecRounds), where a game
\* with two imposters can go on after one of them is revealed.
MaxRoundPlayers == 4
\* Length of the texts on which validation.py is called directly.
MaxTextLen == 4
\* Players and eliminations of the games for which check_win_condition and
\* resolve_vote_tie are called directly.
MaxCallPlayers == 4
MaxEliminated == 3

\* ------------------------------------------------------------------ text
\* str.lower() on one character of the modelled alphabet.
LowerChar(ch) ==
    CASE ch = "A" -> "a"
      [] ch = "B" -> "b"
      [] ch = "C" -> "c"
      [] OTHER -> ch

\* str.lower()
Lower(s) == [i \in 1..Len(s) |-> LowerChar(s[i])]

\* str.strip(): drop leading and trailing blanks.
Strip(s) ==
    LET nonblank == {i \in 1..Len(s) : s[i] # " "}
        lo == CHOOSE i \in nonblank : \A j \in nonblank : i <= j
        hi == CHOOSE i \in nonblank : \A j \in nonblank : j <= i
    IN IF nonblank = {} THEN <<>> ELSE SubSeq(s, lo, hi)

\* Python's `needle in hay` on strings.
Contains(hay, needle) ==
    \E i \in 0..(Len(hay) - Len(needle)) :
        SubSeq(hay, i + 1, i + Len(needle)) = needle

\* len(clue.split()): the number of blank-separated tokens.
WordCount(s) ==
    Cardinality({i \in 1..Len(s) : s[i] # " " /\ (i = 1 \/ s[i - 1] = " ")})

Range(s) == {s[i] : i \in 1..Len(s)}

\* The elements of s that are in Keep, in order (a list comprehension).
RECURSIVE SelectIn(_, _)
SelectIn(s, Keep) ==
    IF s = <<>> THEN <<>>
    ELSE IF Head(s) \in Keep THEN <<Head(s)>> \o SelectIn(Tail(s), Keep)
    ELSE SelectIn(Tail(s), Keep)

\* ------------------------------------------------------------------ roles
IMPOSTER == "imposter"
NON_IMPOSTER == "non_imposter"

\* Python's None where a word is expected (a word is never empty).
None == <<>>

\* --------------------------------------------------------------- validation
ValidationResult(valid, reason, instant_reveal, game_over) ==
    [valid |-> valid, reason |-> reason,
     instant_reveal |-> instant_reveal, game_over |-> game_over]

\* Mutant: rule 1 compares the texts as they are cased.
ExactWordMatchCaseSensitive(clue, secret_word) ==
    Strip(clue) = Strip(secret_word)

\* Rule 1: `clue.lower().strip() == secret_word.lower().strip()`
ExactWordMatch(clue, secret_word) ==
    Strip(Lower(clue)) = Strip(Lower(secret_word))

\* Mutant: rule 2 without the length test.
PartialWordMatchAnyLength(clue, secret_word) ==
    \/ Contains(Lower(clue), Lower(secret_word))
    \/ Contains(Lower(secret_word), Lower(clue))

\* Rule 2: containment either way, only for words longer than 3 characters.
PartialWordMatch(clue, secret_word) ==
    /\ \/ Contains(Lower(clue), Lower(secret_word))
       \/ Contains(Lower(secret_word), Lower(clue))
    /\ Len(secret_word) > 3

\* Mutant: the word match is fatal to the game whatever the role.
WordMatchVerdictAlwaysFatal(role) ==
    ValidationResult(FALSE, "word_match", role = IMPOSTER, TRUE)

\* The two verdicts of rule 1, by role.
WordMatchVerdict(role) ==
    IF role = IMPOSTER
    THEN ValidationResult(FALSE, "word_match", TRUE, FALSE)
    ELSE ValidationResult(FALSE, "word_match", FALSE, TRUE)

\* validate_clue(clue, secret_word, player_id, role) of validation.py
validate_clue(clue, secret_word, player_id, role) ==
    IF ExactWordMatch(clue, secret_word) THEN WordMatchVerdict(role)
    ELSE IF PartialWordMatch(clue, secret_word)
    THEN ValidationResult(FALSE, "partial_word_match", FALSE, FALSE)
    ELSE IF WordCount(clue) > 3
    THEN ValidationResult(TRUE, "long_clue", FALSE, FALSE)
    ELSE ValidationResult(TRUE, "None", FALSE, FALSE)

\* The duplicate rule of the engine's validator (previous_clues argument):
\* exact text match, case-insensitive, against every clue recorded so far.
DuplicateClue(clue, previous_clues) ==
    \E i \in 1..Len(previous_clues) : Lower(previous_clues[i]) = Lower(clue)

\* validate_clue(clue, secret_word, player_id, role, previous_clues) as the
\* engine calls it: word match, partial match, duplicate, then length.
validate_clue_with_history(clue, secret_word, player_id, role, previous_clues) ==
    LET base == validate_clue(clue, secret_word, player_id, role)
    IN IF ~base.valid THEN base
       ELSE IF DuplicateClue(clue, previous_clues)
       THEN ValidationResult(FALSE, "duplicate_clue", FALSE, FALSE)
       ELSE base

\* `if len(surviving_imposters) >= remaining_civilians:`
ImpostersOutnumber(surviving_imposters, remaining_civilians) ==
    Len(surviving_imposters) >= remaining_civilians

\* check_win_condition(eliminated_players, all_imposters, remaining_players,
\*                     num_civilians)
check_win_condition(eliminated, all_imposters, remaining_players, num_civilians) ==
    LET eliminated_imposters == SelectIn(eliminated, Range(all_imposters))
        surviving_imposters ==
            SelectIn(all_imposters, Range(all_imposters) \ Range(eliminated))
        remaining_civilians ==
            num_civilians
              - Len(SelectIn(eliminated, Range(eliminated) \ Range(all_imposters)))
    IN IF Len(surviving_imposters) = 0
       THEN [game_over |-> TRUE, winner |-> "civilians",
             reason |-> "all_imposters_eliminated",
             eliminated_imposters |-> eliminated_imposters,
             surviving_imposters |-> <<>>]
       ELSE IF ImpostersOutnumber(surviving_imposters, remaining_civilians)
       THEN [game_over |-> TRUE, winner |-> "imposters",
             reason |-> "imposters_outnumber_civilians",
             eliminated_imposters |-> eliminated_imposters,
             surviving_imposters |-> surviving_imposters]
       ELSE [game_over |-> FALSE, winner |-> "None",
             reason |-> "game_in_progress",
             eliminated_imposters |-> eliminated_imposters,
             surviving_imposters |-> surviving_imposters]

\* The decimal digits of the number in the id "Player_<i>" (i below 100):
\* what decides the order of two ids as Python strings.
IdDigits(i) == IF i < 10 THEN <<i>> ELSE <<i \div 10, i % 10>>

\* s <= t as Python compares strings: by the first differing position, a
\* proper prefix first.
LexLeq(s, t) ==
    \/ \E k \in 1..Len(s) :
          /\ k <= Len(t)
          /\ s[k] < t[k]
          /\ \A j \in 1..(k - 1) : s[j] = t[j]
    \/ /\ Len(s) <= Len(t)
       /\ \A j \in 1..Len(s) : s[j] = t[j]

\* Mutant: the deterministic policy takes the id listed first.
resolve_vote_tie_first_listed(tied_players, method) ==
    IF method = "random" THEN Range(tied_players)
    ELSE {tied_players[1]}

\* resolve_vote_tie(tied_players, method): the set of ids the call can return.
\* "random" is random.choice; "first" is sorted(tied_players)[0].
resolve_vote_tie(tied_players, method) ==
    IF method = "random" THEN Range(tied_players)
    ELSE IF method = "first"
    THEN {p \in Range(tied_players) :
             \A q \in Range(tied_players) : LexLeq(IdDigits(p), IdDigits(q))}
    ELSE {tied_players[1]}

\* ---------------------------------------------------------- eliminated list
\* Mutant: the newly eliminated player is put at the head of the list.
eliminated_insert_first(eliminated, player_id) == <<player_id>> \o eliminated

\* self.eliminated_players.append(player_id)
eliminated_append(eliminated, player_id) == Append(eliminated, player_id)

\* --------------------------------------------------------- model assignment
\* A distribution (a dict in insertion order) is a sequence of
\* <<model, count>> pairs; the configuration holds one, or None.
DEFAULT_MODEL_DISTRIBUTION ==
    <<<<"gemini-3", 2>>, <<"gemini-2.5", 2>>, <<"gpt4o-mini", 2>>,
      <<"haiku", 1>>, <<"qwen-coder", 1>>>>

NoDistribution == [given |-> FALSE]

\* [x] * n: the empty list when n is not positive.
Repeat(x, n) == [i \in 1..(IF n > 0 THEN n ELSE 0) |-> x]

\* for model_key, count in distribution.items():
\*     model_pool.extend([model_key] * count)
RECURSIVE ExpandDistribution(_)
ExpandDistribution(items) ==
    IF items = <<>> THEN <<>>
    ELSE Repeat(items[1][1], items[1][2]) \o ExpandDistribution(Tail(items))

\* The distribution as configured, None standing for the default one.
DistributionAsConfigured(model_distribution) ==
    IF model_distribution.given THEN model_distribution.items
    ELSE DEFAULT_MODEL_DISTRIBUTION

\* distribution = self.config.model_distribution or DEFAULT_MODEL_DISTRIBUTION:
\* None and the empty dict are both falsy.
DistributionOrDefault(model_distribution) ==
    IF model_distribution.given /\ model_distribution.items # <<>>
    THEN model_distribution.items
    ELSE DEFAULT_MODEL_DISTRIBUTION

\* The pool after padding with the default model and trimming to n.
ModelPool(model_distribution, default_model, n) ==
    LET pool == ExpandDistribution(DistributionOrDefault(model_distribution))
        padded == pool \o Repeat(default_model, n - Len(pool))
    IN SubSeq(padded, 1, n)

\* random.shuffle(model_pool): the orders it can leave the pool in.
Shuffles(pool) ==
    LET n == Len(pool)
        perms == {p \in [1..n -> 1..n] : \A i, j \in 1..n : p[i] = p[j] => i = j}
    IN {[i \in 1..n |-> pool[p[i]]] : p \in perms}

\* _assign_models(player_ids, imposter_ids): the assignments it can return,
\* each a mapping from player id to model.
assign_models(c) ==
    LET n == Len(c.player_ids)
    IN IF c.model_strategy = "single"
       THEN {[pid \in Range(c.player_ids) |-> c.default_model]}
       ELSE IF c.model_strategy = "mixed"
       THEN Shuffles(ModelPool(c.model_distribution, c.default_model, n))
       ELSE IF c.model_strategy = "role-based"
       THEN {[pid \in Range(c.player_ids) |->
                 IF pid \in Range(c.imposter_ids) THEN "haiku" ELSE "llama"]}
       ELSE {[pid \in Range(c.player_ids) |-> c.default_model]}

\* ------------------------------------------------------------------ inputs
\* The configured secret word, and the clue texts a model response can carry:
\* the word itself in another casing, a fragment of it, and two other clues.
SecretWords == {<<"A", "b", "c", "a">>}
ClueTexts ==
    {<<"a", "b", "c", "a">>, <<"b", "c">>, <<"c", "c">>, <<"B", "b">>}

\* ClueResponse (schemas.py): thinking, clue, confidence.
ClueResponses ==
    {[thinking |-> "private thinking", clue |-> c, confidence |-> 50] : c \in ClueTexts}

\* The clue responses of the round-loop specification: the same, and two
\* clues that differ from others only in casing.
RoundClueTexts == ClueTexts \cup {<<"b", "B">>, <<"C", "c">>}

RoundClueResponses ==
    {[thinking |-> "private thinking", clue |-> c, confidence |-> 50] :
        c \in RoundClueTexts}

\* SingleVoteResponse (schemas.py): thinking, vote, reasoning, confidence.
VoteResponses ==
    {[thinking |-> "private thinking", vote |-> t,
      reasoning |-> "public reasoning", confidence |-> 50] :
        t \in 0..MaxRoundPlayers}

\* GameConfig: the fields the engine reads, here with one model for every
\* player (model_strategy "single").  GameConfig and create_game put no
\* bound on the numbers: a game can have no player, no round, and more
\* imposters than players.
ConfigsUpTo(max_players) ==
    {[word |-> w, num_players |-> n, num_imposters |-> k, num_rounds |-> r,
      enable_discussion |-> d, model_strategy |-> "single",
      default_model |-> "gemini-3", model_distribution |-> NoDistribution] :
        w \in SecretWords, n \in 0..max_players, k \in 0..(max_players + 1),
        r \in 0..MaxRounds, d \in BOOLEAN}

\* The configuration create_game builds from a request that names no
\* strategy and no distribution (model_strategy "mixed", distribution
\* None), for one-round games of MaxPlayers players with one imposter.
MixedConfigs ==
    {[c EXCEPT !.model_strategy = "mixed"] :
        c \in {d \in ConfigsUpTo(MaxPlayers) :
                  /\ d.num_players = MaxPlayers
                  /\ d.num_imposters = 1
                  /\ d.num_rounds = 1
                  /\ ~d.enable_discussion}}

Configs == ConfigsUpTo(MaxPlayers) \cup MixedConfigs
RoundConfigs == ConfigsUpTo(MaxRoundPlayers)

\* Games of MaxRoundPlayers players over MaxRounds rounds with discussion,
\* with two imposters (the voting phase can reach a second sub-round, and a
\* revealed imposter can be followed by a further round) or with none.
VotingConfigs ==
    {c \in RoundConfigs :
        /\ c.num_players = MaxRoundPlayers
        /\ c.num_imposters \in {0, 2}
        /\ c.num_rounds = MaxRounds
        /\ c.enable_discussion}

\* ------------------------------------------------------------------- state
VARIABLES
    config,                \* GameEngine.config
    phase,                 \* GameEngine.phase
    players,               \* GameEngine.players: list of AIPlayer
    current_round,         \* GameEngine.current_round
    round_num,             \* run_game: loop variable of the round loop
    all_clues,             \* GameEngine.all_clues: list of ClueRecord
    all_votes,             \* GameEngine.all_votes (legacy batch votes)
    sequential_votes,      \* GameEngine.sequential_votes: list of SingleVoteRecord
    eliminated_players,    \* GameEngine.eliminated_players
    game_ended_early,      \* GameEngine.game_ended_early
    conversation_history,  \* AIPlayer.conversation_history of the player at
                           \* each position of self.players
    pc,                    \* where run_game stands
    idx,                   \* position of the loop over players / active_players
    request,               \* the messages of the model call in flight
    emitted,               \* the events the last step handed to event_callback
    voting_round,          \* loop variable of _execute_voting
    active_players,        \* _execute_voting: active_players of the sub-round,
                           \* as positions in self.players
    votes_this_round,      \* _execute_voting: votes_this_round of the sub-round
    vote_target,           \* _execute_voting: the vote awaiting correction
    result,                \* the GameResult run_game returns
    exception,             \* the exception run_game raised, if any
    call,                  \* a direct call of a function of validation.py
    returned,              \* what that call returned
    event_callback,        \* GameEngine.event_callback
    event_queue,           \* stream_game: event_queue (asyncio.Queue)
    delivered,             \* stream_game: the events event_generator yielded
    generator,             \* stream_game: where event_generator stands
    attempt,               \* OpenRouterSDKClient.call: attempts made so far
    last_error,            \* OpenRouterSDKClient.call: last_error
    second_stream          \* stream_game: the event_queue of a second request
                           \* for the game, which of the two game tasks the
                           \* event loop is running (its locals are pc, idx,
                           \* ... above) and the locals of the other one

vars ==
    <<config, phase, players, current_round, round_num, all_clues, all_votes,
      sequential_votes, eliminated_players, game_ended_early,
      conversation_history, pc, idx, request, emitted, voting_round,
      active_players, votes_this_round, vote_target, result, exception,
      call, returned, event_callback, event_queue, delivered, generator,
      attempt, last_error,
                   second_stream>>

\* GamePhase
SETUP == "SETUP"
CLUE_ROUND == "CLUE_ROUND"
DISCUSSION == "DISCUSSION"
VOTING == "VOTING"
REVEAL == "REVEAL"
COMPLETE == "COMPLETE"

NoRequest == <<>>
NoResult == [none |-> TRUE]
NoCall == [fn |-> "none"]
NoReturn == [none |-> TRUE]
NoFrame == [pc |-> "none"]
NoStream == [event_queue |-> <<>>, running |-> "first", other |-> NoFrame]

\* GameEngine.__init__ for a configuration of configs; set_event_callback
\* is done.
InitWith(configs) ==
    /\ config \in configs
    /\ phase = SETUP
    /\ players = <<>>
    /\ current_round = 0
    /\ round_num = 0
    /\ all_clues = <<>>
    /\ all_votes = <<>>
    /\ sequential_votes = <<>>
    /\ eliminated_players = <<>>
    /\ game_ended_early = FALSE
    /\ conversation_history = <<>>
    /\ pc = "run_game"
    /\ idx = 0
    /\ request = NoRequest
    /\ emitted = <<>>
    /\ voting_round = 0
    /\ active_players = <<>>
    /\ votes_this_round = <<>>
    /\ vote_target = 0
    /\ result = NoResult
    /\ exception = "None"

\* No function of validation.py is called from outside the engine, and the
\* engine is run by run_game with a callback of its caller, not by the
\* stream endpoint.
NoDirectCall ==
    /\ call = NoCall
    /\ returned = NoReturn
    /\ event_callback = "callback"
    /\ event_queue = <<>>
    /\ delivered = <<>>
    /\ generator = "none"
    /\ attempt = 0
    /\ last_error = None
    /\ second_stream = NoStream

\* Mutant: the queue hands out the newest event first.
emit_event_at_head(queue, events) == events \o queue

\* emit_event of stream_game, and its direct puts: `await event_queue.put(event)`
\* for each of the events, in order.
emit_event(queue, events) == queue \o events

\* `if self.event_callback: await self.event_callback({...})` for the events
\* of the step under way: emit_event of the stream request that set the
\* callback last puts them on the queue of that request.
EventCallback ==
    /\ event_queue' = IF event_callback = "emit_event"
                      THEN emit_event(event_queue, emitted')
                      ELSE event_queue
    /\ second_stream' =
          IF event_callback = "emit_event_again"
          THEN [second_stream EXCEPT !.event_queue = emit_event(@, emitted')]
          ELSE second_stream
    /\ UNCHANGED <<event_callback, delivered, generator>>

Init == InitWith(Configs) /\ NoDirectCall

\* ------------------------------------------------------------------- setup
\* player_ids = [f"Player_{i+1}" for i in range(num_players)]
PlayerIds(n) == [i \in 1..n |-> i]

\* Mutant: random.sample never raises; for a k it cannot serve it does not
\* return either.
SampleNeverRaises(player_ids, k) == FALSE

\* random.sample(player_ids, k): the samples it can return, each as a set;
\* it raises ValueError when k is negative or larger than the population.
SampleRaises(player_ids, k) == k < 0 \/ k > Len(player_ids)

\* Mutant: k draws with replacement, so an id can be drawn twice.
random_choices(player_ids, k) ==
    {s \in SUBSET Range(player_ids) :
        Cardinality(s) <= k /\ (k > 0 => Cardinality(s) >= 1)}

random_sample(player_ids, k) ==
    {s \in SUBSET Range(player_ids) : Cardinality(s) = k}

\* AIPlayer(...) as initialize_game creates it for player_id.
AIPlayer(player_id, imposter_ids, word, model) ==
    [player_id |-> player_id,
     role |-> IF player_id \in imposter_ids THEN IMPOSTER ELSE NON_IMPOSTER,
     secret_word |-> IF player_id \in imposter_ids THEN None ELSE word,
     model_name |-> model]

\* model_assignments = self._assign_models(player_ids, imposter_ids): the
\* assignments the call can return under the configuration.
ModelAssignments(player_ids, imposter_ids) ==
    assign_models([model_strategy |-> config.model_strategy,
                   default_model |-> config.default_model,
                   model_distribution |-> config.model_distribution,
                   player_ids |-> player_ids,
                   imposter_ids |-> SelectIn(player_ids, imposter_ids)])

\* initialize_game: sample the imposters, assign the models, create the
\* players.
InitializeGame ==
    /\ pc = "run_game"
    /\ LET player_ids == PlayerIds(config.num_players)
       IN IF SampleRaises(player_ids, config.num_imposters)
          THEN /\ pc' = "raised"
               /\ exception' = "ValueError"
               /\ UNCHANGED <<players, conversation_history>>
          ELSE \E imposter_ids \in random_sample(player_ids, config.num_imposters) :
               \E model_assignments \in ModelAssignments(player_ids, imposter_ids) :
               /\ players' = players \o [i \in 1..Len(player_ids) |->
                                AIPlayer(player_ids[i], imposter_ids, config.word,
                                         model_assignments[player_ids[i]])]
               /\ conversation_history' =
                     conversation_history \o [i \in 1..Len(player_ids) |-> <<>>]
               /\ pc' = "round_start"
               /\ UNCHANGED exception
    /\ phase' = SETUP
    /\ emitted' = <<>>
    /\ EventCallback
    /\ UNCHANGED <<call, returned, attempt, last_error, config, current_round, round_num, all_clues, all_votes, sequential_votes,
                   eliminated_players, game_ended_early, idx, request,
                   voting_round, active_players, votes_this_round, vote_target,
                   result>>

\* ---------------------------------------------------------------- helpers
\* Mutant: the clue log as it stood when the round began (what every player
\* of a round would see if the turns of the round were built together).
get_clue_dicts_at_round_start ==
    LET before == SelectSeq(all_clues, LAMBDA c : c.round < current_round)
    IN [i \in 1..Len(before) |->
           [round |-> before[i].round, player_id |-> before[i].player_id,
            clue |-> before[i].clue]]

\* Mutant: the dicts carry the whole ClueRecord, thinking and confidence
\* included.
get_clue_dicts_with_thinking == all_clues

\* _get_clue_dicts: round, player_id and clue of every ClueRecord.
get_clue_dicts ==
    [i \in 1..Len(all_clues) |->
        [round |-> all_clues[i].round, player_id |-> all_clues[i].player_id,
         clue |-> all_clues[i].clue]]

\* The AIPlayer at a position of self.players; `position` stands for the
\* identity of the object (in one run the player at position i is Player_i,
\* after a further initialize_game two objects can carry the same id).
PlayerAt(position) ==
    [player_id |-> players[position].player_id,
     role |-> players[position].role,
     secret_word |-> players[position].secret_word,
     model_name |-> players[position].model_name,
     position |-> position]

\* [p.player_id for p in player_list]
IdsOf(player_list) == [i \in 1..Len(player_list) |-> player_list[i].player_id]

\* all_imposters = [p.player_id for p in self.players
\*                  if p.role == PlayerRole.IMPOSTER]
ImposterIds == IdsOf(SelectSeq(players, LAMBDA p : p.role = IMPOSTER))

\* _check_win_condition on a given eliminated list.
WinCheck(eliminated) ==
    check_win_condition(
        eliminated,
        ImposterIds,
        IdsOf(SelectSeq(players, LAMBDA p : p.player_id \notin Range(eliminated))),
        Len(SelectSeq(players, LAMBDA p : p.role = NON_IMPOSTER)))

\* _count_remaining_imposters on a given eliminated list.
CountRemainingImposters(eliminated) ==
    Len(SelectIn(ImposterIds, Range(ImposterIds) \ Range(eliminated)))

\* AIPlayer.get_system_prompt: the word is formatted in for non-imposters only.
get_system_prompt(player) ==
    IF player.role = NON_IMPOSTER
    THEN [player_id |-> player.player_id, word |-> player.secret_word,
          total_players |-> config.num_players,
          num_imposters |-> config.num_imposters]
    ELSE [player_id |-> player.player_id, word |-> None,
          total_players |-> config.num_players,
          num_imposters |-> config.num_imposters]

\* AIPlayer.build_clue_messages: system prompt, own history, the clue prompt.
build_clue_messages(player, context) ==
    <<[role |-> "system", content |-> get_system_prompt(player)]>>
    \o conversation_history[player.position]
    \o <<[role |-> "user",
          content |-> [kind |-> "clue", player_id |-> player.player_id,
                       current_round |-> context.current_round,
                       previous_clues |-> context.clues_so_far,
                       word |-> player.secret_word]]>>

\* -------------------------------------------------------------- clue round
\* run_game, top of the round loop `for round_num in range(1, num_rounds +
\* 1)`.  With a round to play: current_round, phase, then
\* _execute_clue_round starts its loop over self.players, and returns at
\* once when there is no player.  With no round to play the loop is over.
RoundStart ==
    /\ pc = "round_start"
    /\ IF round_num < config.num_rounds
       THEN /\ round_num' = round_num + 1
            /\ current_round' = round_num + 1
            /\ phase' = CLUE_ROUND
            /\ IF players # <<>>
               THEN /\ idx' = 1
                    /\ pc' = "clue_turn"
               ELSE /\ pc' = "round_end"
                    /\ UNCHANGED idx
       ELSE /\ pc' = "after_rounds"
            /\ UNCHANGED <<round_num, current_round, phase, idx>>
    /\ emitted' = <<>>
    /\ EventCallback
    /\ UNCHANGED <<call, returned, attempt, last_error, config, players, all_clues, all_votes, sequential_votes,
                   eliminated_players, game_ended_early, conversation_history,
                   request, voting_round, active_players, votes_this_round,
                   vote_target, result, exception>>

\* The loop `for idx, player in enumerate(self.players)` moves on, or
\* _execute_clue_round returns after the last player.
AfterClueTurn == IF idx < Len(players) THEN "clue_turn" ELSE "round_end"

\* One turn up to the model call: context from the clue log as it stands,
\* the player_thinking event, the messages.
ClueRequest ==
    /\ pc = "clue_turn"
    /\ LET player == PlayerAt(idx)
           context == [current_round |-> current_round,
                       clues_so_far |-> get_clue_dicts]
       IN /\ emitted' = <<[type |-> "player_thinking",
                           player_id |-> player.player_id,
                           player_model |-> player.model_name,
                           action |-> "clue"]>>
          /\ request' = build_clue_messages(player, context)
    /\ pc' = "clue_await"
    /\ EventCallback
    /\ UNCHANGED <<call, returned, attempt, last_error, config, phase, players, current_round, round_num, all_clues, all_votes,
                   sequential_votes, eliminated_players, game_ended_early,
                   conversation_history, idx, voting_round, active_players,
                   votes_this_round, vote_target, result, exception>>

\* Mutant: the failure of a model call is reported as recoverable.
CallFailureEventRecoverable(player_id) ==
    <<[type |-> "error", player_id |-> player_id, recoverable |-> TRUE]>>

\* The error event of the `except Exception` around a model call.
CallFailureEvent(player_id) ==
    <<[type |-> "error", player_id |-> player_id, recoverable |-> FALSE]>>

\* call_with_fallback raised: the error event, then RuntimeError.
ClueCallFails ==
    /\ pc = "clue_await"
    /\ emitted' = CallFailureEvent(players[idx].player_id)
    /\ pc' = "raised"
    /\ exception' = "RuntimeError"
    /\ request' = NoRequest
    /\ EventCallback
    /\ UNCHANGED <<call, returned, attempt, last_error, config, phase, players, current_round, round_num, all_clues, all_votes,
                   sequential_votes, eliminated_players, game_ended_early,
                   conversation_history, idx, voting_round,
                   active_players, votes_this_round, vote_target, result>>

\* Mutant: every record is filed under round 1.
ClueRecordFirstRound(player, response) ==
    [round |-> 1, player_id |-> player.player_id,
     player_model |-> player.model_name,
     role |-> player.role, clue |-> response.clue,
     thinking |-> response.thinking, confidence |-> response.confidence]

\* ClueRecord(...) of a validated response.
ClueRecord(player, response) ==
    [round |-> current_round, player_id |-> player.player_id,
     player_model |-> player.model_name,
     role |-> player.role, clue |-> response.clue,
     thinking |-> response.thinking, confidence |-> response.confidence]

\* AIPlayer.record_clue: the serialized response joins the player's history.
record_clue(player, response) ==
    [conversation_history EXCEPT ![player.position] =
        Append(@, [role |-> "assistant", content |-> response])]

\* AIPlayer.record_vote: the serialized response joins the player's history.
record_vote(player, response) ==
    [conversation_history EXCEPT ![player.position] =
        Append(@, [role |-> "assistant", content |-> response])]

\* Mutant: a rejected clue is dropped without a validation_error event.
InvalidClueEventsSilent(player, response, validation) ==
    IF validation.instant_reveal
    THEN <<[type |-> "instant_reveal", player_id |-> player.player_id,
            role |-> player.role, reason |-> "said_secret_word"]>>
    ELSE <<>>

\* The events of a turn whose clue failed validation.
InvalidClueEvents(player, response, validation) ==
    <<[type |-> "validation_error", player_id |-> player.player_id,
       clue |-> response.clue, reason |-> validation.reason]>>
    \o (IF validation.instant_reveal
        THEN <<[type |-> "instant_reveal", player_id |-> player.player_id,
                role |-> player.role, reason |-> "said_secret_word"]>>
        ELSE <<>>)

\* Mutant: only the clues of the round under way are passed on.
previous_clue_words_of_round ==
    LET current == SelectSeq(all_clues, LAMBDA c : c.round = current_round)
    IN [i \in 1..Len(current) |-> current[i].clue]

\* previous_clue_words = [c.clue for c in self.all_clues]
previous_clue_words == [i \in 1..Len(all_clues) |-> all_clues[i].clue]

\* The model call returned: validate, then one of the three invalid branches
\* or the recording of the clue.
ClueCallReturns(response) ==
    /\ pc = "clue_await"
    /\ LET player == PlayerAt(idx)
           validation == validate_clue_with_history(
                             response.clue, config.word, player.player_id,
                             player.role, previous_clue_words)
       IN IF ~validation.valid
          THEN /\ emitted' = InvalidClueEvents(player, response, validation)
               /\ eliminated_players' =
                     IF validation.instant_reveal
                     THEN eliminated_append(eliminated_players, player.player_id)
                     ELSE eliminated_players
               /\ IF validation.game_over
                  THEN /\ game_ended_early' = TRUE
                       /\ pc' = "round_end"
                       /\ idx' = idx
                  ELSE /\ game_ended_early' = game_ended_early
                       /\ pc' = AfterClueTurn
                       /\ idx' = idx + 1
               /\ UNCHANGED <<all_clues, conversation_history>>
          ELSE /\ all_clues' = Append(all_clues, ClueRecord(player, response))
               /\ conversation_history' = record_clue(player, response)
               /\ emitted' = <<[type |-> "clue", round |-> current_round,
                                player_id |-> player.player_id,
                                player_model |-> player.model_name,
                                clue |-> response.clue,
                                thinking |-> response.thinking]>>
               /\ pc' = AfterClueTurn
               /\ idx' = idx + 1
               /\ UNCHANGED <<eliminated_players, game_ended_early>>
    /\ request' = NoRequest
    /\ EventCallback
    /\ UNCHANGED <<call, returned, attempt, last_error, config, phase, players, current_round, round_num, all_votes,
                   sequential_votes, voting_round, active_players,
                   votes_this_round, vote_target, result, exception>>

\* run_game after _execute_clue_round: the two breaks, the optional
\* discussion phase, the next round or the end of the loop.
RoundLoopBreaks == game_ended_early \/ WinCheck(eliminated_players).game_over

AfterRound == IF round_num < config.num_rounds THEN "round_start" ELSE "after_rounds"

RoundEnd ==
    /\ pc = "round_end"
    /\ IF RoundLoopBreaks
       THEN /\ pc' = "after_rounds"
            /\ UNCHANGED phase
       ELSE IF config.enable_discussion
       THEN /\ phase' = DISCUSSION
            /\ pc' = "discussion"
       ELSE /\ pc' = AfterRound
            /\ UNCHANGED phase
    /\ emitted' = <<>>
    /\ EventCallback
    /\ UNCHANGED <<call, returned, attempt, last_error, config, players, current_round, round_num, all_clues, all_votes,
                   sequential_votes, eliminated_players, game_ended_early,
                   conversation_history, idx, request, voting_round,
                   active_players, votes_this_round, vote_target, result,
                   exception>>

\* _execute_discussion_phase: nothing happens.
ExecuteDiscussion ==
    /\ pc = "discussion"
    /\ pc' = AfterRound
    /\ emitted' = <<>>
    /\ EventCallback
    /\ UNCHANGED <<call, returned, attempt, last_error, config, phase, players, current_round, round_num, all_clues, all_votes,
                   sequential_votes, eliminated_players, game_ended_early,
                   conversation_history, idx, request, voting_round,
                   active_players, votes_this_round, vote_target, result,
                   exception>>

\* ------------------------------------------------------------------ voting
\* Mutant: the voting phase runs whatever happened in the rounds.
VotingRunsAlways == TRUE

\* run_game: `if not self.game_ended_early:` guards the voting phase.
VotingRuns == ~game_ended_early

\* run_game after the round loop; _execute_voting loops over
\* range(1, num_imposters + 1).
AfterRounds ==
    /\ pc = "after_rounds"
    /\ IF VotingRuns
       THEN /\ phase' = VOTING
            /\ IF config.num_imposters >= 1
               THEN /\ voting_round' = 1
                    /\ pc' = "voting_round_start"
               ELSE /\ pc' = "calculate_results"
                    /\ UNCHANGED voting_round
       ELSE /\ pc' = "calculate_results"
            /\ UNCHANGED <<phase, voting_round>>
    /\ emitted' = <<>>
    /\ EventCallback
    /\ UNCHANGED <<call, returned, attempt, last_error, config, players, current_round, round_num, all_clues, all_votes,
                   sequential_votes, eliminated_players, game_ended_early,
                   conversation_history, idx, request, active_players,
                   votes_this_round, vote_target, result, exception>>

\* active_players = [p for p in self.players if p.player_id not in
\* self.eliminated_players], as positions in self.players.
ActivePlayers ==
    SelectSeq([i \in 1..Len(players) |-> i],
              LAMBDA i : players[i].player_id \notin Range(eliminated_players))

\* [p.player_id for p in active_players]
ActiveIds ==
    [i \in 1..Len(active_players) |-> players[active_players[i]].player_id]

\* Mutant: the voter is not taken out of its own targets.
ValidTargetsWithSelf(voter) == ActiveIds

\* valid_targets = [p.player_id for p in active_players if p.player_id != voter]
ValidTargets(voter) == SelectIn(ActiveIds, Range(ActiveIds) \ {voter})

\* Top of a sub-round: the voting_round_start event, the active players,
\* empty votes_this_round and vote_counts.
VotingRoundStart ==
    /\ pc = "voting_round_start"
    /\ emitted' = <<[type |-> "voting_round_start", voting_round |-> voting_round,
                     total_voting_rounds |-> config.num_imposters,
                     eliminated_so_far |-> eliminated_players]>>
    /\ active_players' = ActivePlayers
    /\ votes_this_round' = <<>>
    /\ idx' = 1
    /\ pc' = IF ActivePlayers = <<>> THEN "tally" ELSE "vote_turn"
    /\ EventCallback
    /\ UNCHANGED <<call, returned, attempt, last_error, config, phase, players, current_round, round_num, all_clues, all_votes,
                   sequential_votes, eliminated_players, game_ended_early,
                   conversation_history, request, voting_round, vote_target,
                   result, exception>>

\* Mutant: the prompt lists the votes of every sub-round so far.
build_single_vote_prompt_all_votes(player, clue_dicts, eliminated, previous_votes, word) ==
    [kind |-> "vote", player_id |-> player.player_id,
     all_clues |-> clue_dicts, voting_round |-> voting_round,
     total_voting_rounds |-> config.num_imposters,
     eliminated_players |-> eliminated,
     previous_votes_this_round |->
        [i \in 1..Len(sequential_votes) |->
            [player_id |-> sequential_votes[i].player_id,
             vote |-> sequential_votes[i].voted_for,
             reasoning |-> sequential_votes[i].reasoning]],
     word |-> IF player.role = NON_IMPOSTER THEN word ELSE None]

\* Mutant: the word is formatted into the vote prompt whatever the role.
build_single_vote_prompt_word_for_all(player, clue_dicts, eliminated, previous_votes, word) ==
    [kind |-> "vote", player_id |-> player.player_id,
     all_clues |-> clue_dicts, voting_round |-> voting_round,
     total_voting_rounds |-> config.num_imposters,
     eliminated_players |-> eliminated,
     previous_votes_this_round |-> previous_votes,
     word |-> word]

\* build_single_vote_prompt: the word is formatted in for non-imposters only.
build_single_vote_prompt(player, clue_dicts, eliminated, previous_votes, word) ==
    [kind |-> "vote", player_id |-> player.player_id,
     all_clues |-> clue_dicts, voting_round |-> voting_round,
     total_voting_rounds |-> config.num_imposters,
     eliminated_players |-> eliminated,
     previous_votes_this_round |-> previous_votes,
     word |-> IF player.role = NON_IMPOSTER THEN word ELSE None]

\* AIPlayer.build_single_vote_messages: system prompt, own history, the
\* vote prompt.
build_single_vote_messages(player, clue_dicts, eliminated, previous_votes, word) ==
    <<[role |-> "system", content |-> get_system_prompt(player)]>>
    \o conversation_history[player.position]
    \o <<[role |-> "user",
          content |-> build_single_vote_prompt(player, clue_dicts, eliminated,
                                               previous_votes, word)]>>

\* One voter's turn up to the model call.
VoteRequest ==
    /\ pc = "vote_turn"
    /\ LET player == PlayerAt(active_players[idx])
       IN /\ emitted' = <<[type |-> "player_thinking",
                           player_id |-> player.player_id,
                           player_model |-> player.model_name,
                           action |-> "vote",
                           voting_round |-> voting_round]>>
          /\ request' = build_single_vote_messages(
                            player, get_clue_dicts, eliminated_players,
                            votes_this_round, config.word)
    /\ pc' = "vote_await"
    /\ EventCallback
    /\ UNCHANGED <<call, returned, attempt, last_error, config, phase, players, current_round, round_num, all_clues, all_votes,
                   sequential_votes, eliminated_players, game_ended_early,
                   conversation_history, idx, voting_round, active_players,
                   votes_this_round, vote_target, result, exception>>

\* call_with_fallback raised for a vote: the error event, then RuntimeError.
VoteCallFails ==
    /\ pc = "vote_await"
    /\ emitted' = CallFailureEvent(ActiveIds[idx])
    /\ pc' = "raised"
    /\ exception' = "RuntimeError"
    /\ request' = NoRequest
    /\ EventCallback
    /\ UNCHANGED <<call, returned, attempt, last_error, config, phase, players, current_round, round_num, all_clues, all_votes,
                   sequential_votes, eliminated_players, game_ended_early,
                   conversation_history, idx, voting_round,
                   active_players, votes_this_round, vote_target, result>>

\* `if vote_target not in valid_targets:` before the corrective re-prompt.
VoteNeedsCorrection(target, valid_targets) == target \notin Range(valid_targets)

\* Mutant: whatever the re-prompt returned is taken.
VoteNeverStillInvalid(target, valid_targets) == FALSE

\* `if vote_target not in valid_targets:` after the corrective re-prompt.
VoteStillInvalid(target, valid_targets) == target \notin Range(valid_targets)

\* correction_messages: the original messages, the rejected vote, the list
\* of valid targets.
CorrectionMessages(messages, target, valid_targets) ==
    messages
    \o <<[role |-> "assistant", content |-> [vote |-> target]],
         [role |-> "user",
          content |-> [kind |-> "correction", rejected |-> target,
                       valid_targets |-> valid_targets]]>>

\* SingleVoteRecord, votes_this_round, vote_counts and the vote event.
RecordVote(voter, target, response) ==
    /\ sequential_votes' =
          Append(sequential_votes,
                 [voting_round |-> voting_round, player_id |-> voter,
                  voted_for |-> target, reasoning |-> response.reasoning,
                  thinking |-> response.thinking,
                  confidence |-> response.confidence])
    /\ votes_this_round' =
          Append(votes_this_round,
                 [player_id |-> voter, vote |-> target,
                  reasoning |-> response.reasoning])
    /\ emitted' = <<[type |-> "vote", voting_round |-> voting_round,
                     player_id |-> voter, vote |-> target,
                     total_votes_cast |-> Len(votes_this_round) + 1,
                     total_active_players |-> Len(active_players)]>>
    /\ idx' = idx + 1
    /\ pc' = IF idx < Len(active_players) THEN "vote_turn" ELSE "tally"
    /\ vote_target' = 0
    /\ request' = NoRequest

\* The first response of a voter: recorded when its target is valid,
\* otherwise the corrective re-prompt is dispatched.
VoteCallReturns(response) ==
    /\ pc = "vote_await"
    /\ response.vote <= config.num_players
    /\ LET voter == ActiveIds[idx]
           valid_targets == ValidTargets(voter)
       IN IF VoteNeedsCorrection(response.vote, valid_targets)
          THEN /\ vote_target' = response.vote
               /\ request' = CorrectionMessages(request, response.vote, valid_targets)
               /\ pc' = "vote_retry_await"
               /\ emitted' = <<>>
               /\ UNCHANGED <<sequential_votes, votes_this_round, idx>>
          ELSE RecordVote(voter, response.vote, response)
    /\ EventCallback
    /\ UNCHANGED <<call, returned, attempt, last_error, config, phase, players, current_round, round_num, all_clues, all_votes,
                   eliminated_players, game_ended_early, conversation_history,
                   voting_round, active_players, result, exception>>

\* The final validation after the re-prompt: record, or the error event and
\* RuntimeError.
FinalValidation(voter, target, response) ==
    IF VoteStillInvalid(target, ValidTargets(voter))
    THEN /\ emitted' = <<[type |-> "error", player_id |-> voter,
                          recoverable |-> FALSE]>>
         /\ pc' = "raised"
         /\ exception' = "RuntimeError"
         /\ vote_target' = target
         /\ request' = NoRequest
         /\ UNCHANGED <<sequential_votes, votes_this_round, idx>>
    ELSE /\ RecordVote(voter, target, response)
         /\ UNCHANGED exception

\* The re-prompt returned: vote_target = response.vote is validated.
VoteRetryReturns(response) ==
    /\ pc = "vote_retry_await"
    /\ response.vote <= config.num_players
    /\ FinalValidation(ActiveIds[idx], response.vote, response)
    /\ EventCallback
    /\ UNCHANGED <<call, returned, attempt, last_error, config, phase, players, current_round, round_num, all_clues, all_votes,
                   eliminated_players, game_ended_early, conversation_history,
                   voting_round, active_players, result>>

\* The re-prompt raised: the exception is logged, vote_target is still the
\* rejected vote.
VoteRetryFails ==
    /\ pc = "vote_retry_await"
    /\ \E first \in VoteResponses :
          /\ first.vote = vote_target
          /\ FinalValidation(ActiveIds[idx], vote_target, first)
    /\ EventCallback
    /\ UNCHANGED <<call, returned, attempt, last_error, config, phase, players, current_round, round_num, all_clues, all_votes,
                   eliminated_players, game_ended_early, conversation_history,
                   voting_round, active_players, result>>

\* vote_counts[t] of the sub-round.
VoteCount(votes, t) == Cardinality({i \in 1..Len(votes) : votes[i].vote = t})

\* The keys of vote_counts in insertion order: each target at its first vote.
RECURSIVE VoteCountKeys(_)
VoteCountKeys(votes) ==
    IF votes = <<>> THEN <<>>
    ELSE LET front == VoteCountKeys(SubSeq(votes, 1, Len(votes) - 1))
             t == votes[Len(votes)].vote
         IN IF t \in Range(front) THEN front ELSE Append(front, t)

\* Mutant: every target that got a vote counts as tied.
TiedPlayersAnyCount(votes) == VoteCountKeys(votes)

\* tied_players = [p for p, v in vote_counts.items() if v == max_votes]
TiedPlayers(votes) ==
    LET keys == VoteCountKeys(votes)
        top == {t \in Range(keys) :
                   \A u \in Range(keys) : VoteCount(votes, u) <= VoteCount(votes, t)}
    IN SelectIn(keys, top)

\* The ids the tally can eliminate: the tie-breaker's choice among several
\* tied players, the single top target otherwise.
EliminationChoices(votes) ==
    LET tied_players == TiedPlayers(votes)
    IN IF Len(tied_players) > 1
       THEN resolve_vote_tie(tied_players, "random")
       ELSE {tied_players[1]}

\* The loop over voting rounds moves on, or _execute_voting returns.
AfterVotingRound == IF voting_round < config.num_imposters
                    THEN "voting_round_start" ELSE "calculate_results"

\* win_check = self._check_win_condition(); if win_check.game_over: break
VotingLoopBreaks(eliminated) == WinCheck(eliminated).game_over

\* End of a sub-round: tally, elimination, the elimination event, the win
\* check that can break the loop.
Tally ==
    /\ pc = "tally"
    /\ IF votes_this_round # <<>>
       THEN \E eliminated \in EliminationChoices(votes_this_round) :
              LET after == eliminated_append(eliminated_players, eliminated)
                  eliminated_player ==
                      SelectSeq(players, LAMBDA p : p.player_id = eliminated)
                  was_imposter ==
                      IF eliminated_player # <<>>
                      THEN eliminated_player[1].role = IMPOSTER ELSE FALSE
              IN /\ eliminated_players' = after
                 /\ emitted' = <<[type |-> "elimination",
                                  voting_round |-> voting_round,
                                  eliminated_player |-> eliminated,
                                  was_imposter |-> was_imposter,
                                  remaining_imposters |-> CountRemainingImposters(after)]>>
                 /\ IF VotingLoopBreaks(after)
                    THEN /\ pc' = "calculate_results"
                         /\ UNCHANGED voting_round
                    ELSE /\ pc' = AfterVotingRound
                         /\ voting_round' = IF AfterVotingRound = "voting_round_start"
                                            THEN voting_round + 1 ELSE voting_round
       ELSE /\ pc' = AfterVotingRound
            /\ voting_round' = IF AfterVotingRound = "voting_round_start"
                               THEN voting_round + 1 ELSE voting_round
            /\ emitted' = <<>>
            /\ UNCHANGED eliminated_players
    /\ EventCallback
    /\ UNCHANGED <<call, returned, attempt, last_error, config, phase, players, current_round, round_num, all_clues, all_votes,
                   sequential_votes, game_ended_early, conversation_history,
                   idx, request, active_players, votes_this_round, vote_target,
                   result, exception>>

\* ----------------------------------------------------------------- results
\* _calculate_results: the suspects of all_votes, in the order they were
\* named (`for vote_record in self.all_votes: for suspect in voted_for`).
RECURSIVE LegacySuspects(_)
LegacySuspects(votes) ==
    IF votes = <<>> THEN <<>>
    ELSE votes[1].voted_for \o LegacySuspects(Tail(votes))

\* vote_counts[suspect]
LegacyVoteCount(suspects, p) ==
    Cardinality({i \in 1..Len(suspects) : suspects[i] = p})

\* The keys of vote_counts in insertion order.
RECURSIVE LegacyVoteKeys(_)
LegacyVoteKeys(suspects) ==
    IF suspects = <<>> THEN <<>>
    ELSE <<Head(suspects)>>
         \o LegacyVoteKeys(SelectIn(Tail(suspects),
                                    Range(Tail(suspects)) \ {Head(suspects)}))

\* tied_players = [p for p, v in vote_counts.items() if v == max_votes]
LegacyTiedPlayers(suspects) ==
    LET keys == LegacyVoteKeys(suspects)
    IN SelectIn(keys,
                {p \in Range(keys) :
                    \A q \in Range(keys) :
                        LegacyVoteCount(suspects, q) <= LegacyVoteCount(suspects, p)})

\* eliminated_by_vote, the lists _calculate_results can arrive at: empty
\* without votes, otherwise the one top-voted player, a tie being broken by
\* resolve_vote_tie (random.choice).
LegacyVotes ==
    LET suspects == LegacySuspects(all_votes)
        tied_players == LegacyTiedPlayers(suspects)
    IN IF suspects = <<>> THEN {<<>>}
       ELSE IF Len(tied_players) > 1
       THEN {<<p>> : p \in resolve_vote_tie(tied_players, "random")}
       ELSE {<<tied_players[1]>>}

\* Mutant: the accuracy counts the entries of the eliminated list.
DetectionAccuracyOfEntries(all_eliminated, actual_imposters) ==
    IF actual_imposters # <<>>
    THEN <<Len(SelectIn(eliminated_players, Range(actual_imposters))),
           Len(actual_imposters)>>
    ELSE <<0, 1>>

\* accuracy = len(correctly_identified) / len(actual_imposters) if
\* actual_imposters else 0, as the ratio <<numerator, denominator>>.
DetectionAccuracy(all_eliminated, actual_imposters) ==
    LET correctly_identified == all_eliminated \cap Range(actual_imposters)
    IN IF actual_imposters # <<>>
       THEN <<Cardinality(correctly_identified), Len(actual_imposters)>>
       ELSE <<0, 1>>

\* list(set(items)): the lists it can return, the distinct items in any
\* order (the iteration order of a set of strings is not fixed).
\* list(set(items)): the distinct items, in an order the code does not fix.
ListOfSet(items) ==
    LET n == Cardinality(Range(items))
    IN {l \in [1..n -> Range(items)] : Range(l) = Range(items)}

\* all_eliminated = list(set(self.eliminated_players + eliminated_by_vote))
AllEliminated(eliminated_by_vote) ==
    ListOfSet(eliminated_players \o eliminated_by_vote)

\* The GameResult for a given all_eliminated.
CalculateResult(all_eliminated) ==
    LET actual_imposters == ImposterIds
    IN [word |-> config.word,
        actual_imposters |-> actual_imposters,
        eliminated_players |-> all_eliminated,
        detection_accuracy |->
            DetectionAccuracy(Range(all_eliminated), actual_imposters),
        total_rounds |-> current_round,
        all_clues |-> all_clues,
        all_votes |-> all_votes]

\* run_game: phase REVEAL and the result.
CalculateResults ==
    /\ pc = "calculate_results"
    /\ phase' = REVEAL
    /\ \E eliminated_by_vote \in LegacyVotes :
          \E all_eliminated \in AllEliminated(eliminated_by_vote) :
             result' = CalculateResult(all_eliminated)
    /\ pc' = "complete"
    /\ emitted' = <<>>
    /\ EventCallback
    /\ UNCHANGED <<call, returned, attempt, last_error, config, players, current_round, round_num, all_clues, all_votes,
                   sequential_votes, eliminated_players, game_ended_early,
                   conversation_history, idx, request, voting_round,
                   active_players, votes_this_round, vote_target, exception>>

\* run_game: phase COMPLETE, return result.
Complete ==
    /\ pc = "complete"
    /\ phase' = COMPLETE
    /\ pc' = "done"
    /\ emitted' = <<>>
    /\ EventCallback
    /\ UNCHANGED <<call, returned, attempt, last_error, config, players, current_round, round_num, all_clues, all_votes,
                   sequential_votes, eliminated_players, game_ended_early,
                   conversation_history, idx, request, voting_round,
                   active_players, votes_this_round, vote_target, result,
                   exception>>

\* ----------------------------------------------------------- specification
Next ==
    \/ InitializeGame
    \/ RoundStart
    \/ ClueRequest
    \/ ClueCallFails
    \/ \E response \in ClueResponses : ClueCallReturns(response)
    \/ RoundEnd
    \/ ExecuteDiscussion
    \/ AfterRounds
    \/ VotingRoundStart
    \/ VoteRequest
    \/ VoteCallFails
    \/ \E response \in VoteResponses : VoteCallReturns(response)
    \/ \E response \in VoteResponses : VoteRetryReturns(response)
    \/ VoteRetryFails
    \/ Tally
    \/ CalculateResults
    \/ Complete

Spec == Init /\ [][Next]_vars

\* run_game as a coroutine that is never abandoned: the event loop resumes
\* it whenever it can go on, and every model call it awaits resolves, with
\* a response or with a failure.
SpecFair == Spec /\ WF_vars(Next)

\* The round loop of run_game alone (setup and the clue rounds, up to the
\* point where the voting phase would start), for up to MaxRoundPlayers.
InitRounds == InitWith(RoundConfigs) /\ NoDirectCall

NextRounds ==
    \/ InitializeGame
    \/ RoundStart
    \/ ClueRequest
    \/ ClueCallFails
    \/ \E response \in RoundClueResponses : ClueCallReturns(response)
    \/ RoundEnd
    \/ ExecuteDiscussion

SpecRounds == InitRounds /\ [][NextRounds]_vars

\* The whole of run_game for the games of VotingConfigs.
InitVoting == InitWith(VotingConfigs) /\ NoDirectCall

SpecVoting == InitVoting /\ [][Next]_vars

\* ------------------------------------------------------- the stream endpoint
\* stream_game of api/main.py: its run_game drives the engine's
\* initialize_game, _execute_clue_round, _execute_voting and
\* _calculate_results itself, as a task beside event_generator, which takes
\* the events off event_queue and yields them to the consumer.
StreamConfigs ==
    {c \in ConfigsUpTo(MaxPlayers) :
        /\ c.num_players = MaxPlayers
        /\ c.num_imposters = 1
        /\ ~c.enable_discussion}

\* The clue responses of the streamed games: the secret word in another
\* casing and one other clue (valid when first given, a duplicate after).
StreamClueResponses ==
    {r \in ClueResponses : r.clue \in {<<"a", "b", "c", "a">>, <<"c", "c">>}}

\* The None that run_game puts on the queue to signal the end of the stream.
EndOfStream == [type |-> "None"]

\* The stream endpoint was called for a created game: event_generator has
\* created the game task and awaits the queue.
InitStream ==
    /\ InitWith(StreamConfigs)
    /\ call = NoCall
    /\ returned = NoReturn
    /\ event_callback = "None"
    /\ event_queue = <<>>
    /\ delivered = <<>>
    /\ generator = "await"
    /\ attempt = 0
    /\ last_error = None
    /\ second_stream = NoStream

\* `await event_queue.put(event)` of run_game, for each of the events in
\* order: event_queue is the queue of the request the running game task
\* belongs to.
OwnQueuePut(events) ==
    IF second_stream.running = "second"
    THEN /\ second_stream' =
               [second_stream EXCEPT !.event_queue = emit_event(@, events)]
         /\ UNCHANGED event_queue
    ELSE /\ event_queue' = emit_event(event_queue, events)
         /\ UNCHANGED second_stream

\* emit_event of the request the running game task belongs to.
OwnCallback ==
    IF second_stream.running = "second" THEN "emit_event_again" ELSE "emit_event"

\* run_game of stream_game: initialize_game, set_event_callback, the
\* game_start event.
StreamInitializeGame ==
    /\ pc = "run_game"
    /\ LET player_ids == PlayerIds(config.num_players)
       IN IF SampleRaises(player_ids, config.num_imposters)
          THEN /\ pc' = "raised"
               /\ exception' = "ValueError"
               /\ UNCHANGED <<players, conversation_history, event_callback,
                              event_queue, second_stream>>
          ELSE \E imposter_ids \in random_sample(player_ids, config.num_imposters) :
               \E model_assignments \in ModelAssignments(player_ids, imposter_ids) :
               /\ players' = players \o [i \in 1..Len(player_ids) |->
                                AIPlayer(player_ids[i], imposter_ids, config.word,
                                         model_assignments[player_ids[i]])]
               /\ conversation_history' =
                     conversation_history \o [i \in 1..Len(player_ids) |-> <<>>]
               /\ event_callback' = OwnCallback
               /\ OwnQueuePut(<<[type |-> "game_start",
                                 players |-> [i \in 1..Len(players') |->
                                    [id |-> players'[i].player_id,
                                     model |-> players'[i].model_name]]]>>)
               /\ pc' = "round_start"
               /\ UNCHANGED exception
    /\ phase' = SETUP
    /\ emitted' = <<>>
    /\ UNCHANGED <<call, returned, attempt, last_error,
                   config, current_round, round_num, all_clues, all_votes,
                   sequential_votes, eliminated_players, game_ended_early, idx,
                   request, voting_round, active_players, votes_this_round,
                   vote_target, result, delivered, generator>>

\* Top of `for round_num in range(1, num_rounds + 1)`.  With a round to
\* play: current_round, the round_start event, then _execute_clue_round
\* starts its loop over self.players, and returns at once when there is no
\* player.  With no round to play: the voting_start event and
\* _execute_voting.
StreamRoundStart ==
    /\ pc = "round_start"
    /\ IF round_num < config.num_rounds
       THEN /\ round_num' = round_num + 1
            /\ current_round' = round_num + 1
            /\ OwnQueuePut(<<[type |-> "round_start", round |-> round_num + 1,
                              total_rounds |-> config.num_rounds]>>)
            /\ IF players # <<>>
               THEN /\ idx' = 1
                    /\ pc' = "clue_turn"
               ELSE /\ pc' = "round_end"
                    /\ UNCHANGED idx
            /\ UNCHANGED voting_round
       ELSE /\ OwnQueuePut(<<[type |-> "voting_start"]>>)
            /\ IF config.num_imposters >= 1
               THEN /\ voting_round' = 1
                    /\ pc' = "voting_round_start"
               ELSE /\ pc' = "calculate_results"
                    /\ UNCHANGED voting_round
            /\ UNCHANGED <<round_num, current_round, idx>>
    /\ emitted' = <<>>
    /\ UNCHANGED <<call, returned, attempt, last_error,
                   config, phase, players, all_clues, all_votes,
                   sequential_votes, eliminated_players, game_ended_early,
                   conversation_history, request, active_players,
                   votes_this_round, vote_target, result, exception,
                   event_callback, delivered, generator>>

\* _execute_clue_round returned: the round_end event, then the next round
\* or, after the last, the voting_start event and _execute_voting.
StreamRoundEnd ==
    /\ pc = "round_end"
    /\ LET round_end == <<[type |-> "round_end", round |-> round_num]>>
       IN IF round_num < config.num_rounds
          THEN /\ OwnQueuePut(round_end)
               /\ pc' = "round_start"
               /\ UNCHANGED voting_round
          ELSE /\ OwnQueuePut(round_end \o <<[type |-> "voting_start"]>>)
               /\ IF config.num_imposters >= 1
                  THEN /\ voting_round' = 1
                       /\ pc' = "voting_round_start"
                  ELSE /\ pc' = "calculate_results"
                       /\ UNCHANGED voting_round
    /\ emitted' = <<>>
    /\ UNCHANGED <<call, returned, attempt, last_error,
                   config, phase, players, current_round, round_num,
                   all_clues, all_votes, sequential_votes, eliminated_players,
                   game_ended_early, conversation_history, idx, request,
                   active_players, votes_this_round, vote_target, result,
                   exception, event_callback, delivered, generator>>

\* _execute_voting returned: _calculate_results, the game_complete event,
\* history.save_game_result, then (finally) the None that ends the stream.
\* save_game_result writes to the SQLite file and can raise (a locked or
\* unwritable database); `except Exception` then puts the error event.
StreamGameComplete ==
    /\ pc = "calculate_results"
    /\ \E eliminated_by_vote \in LegacyVotes, save_raises \in BOOLEAN :
       \E all_eliminated \in AllEliminated(eliminated_by_vote) :
          /\ result' = CalculateResult(all_eliminated)
          /\ OwnQueuePut(
                <<[type |-> "game_complete",
                   actual_imposters |-> result'.actual_imposters,
                   eliminated_players |-> result'.eliminated_players,
                   detection_accuracy |-> result'.detection_accuracy,
                   total_rounds |-> result'.total_rounds]>>
                \o (IF save_raises
                    THEN <<[type |-> "error", message |-> "OperationalError"]>>
                    ELSE <<>>)
                \o <<EndOfStream>>)
          /\ exception' = IF save_raises THEN "OperationalError" ELSE exception
    /\ pc' = "stream_done"
    /\ emitted' = <<>>
    /\ UNCHANGED <<call, returned, attempt, last_error,
                   config, phase, players, current_round, round_num,
                   all_clues, all_votes, sequential_votes, eliminated_players,
                   game_ended_early, conversation_history, idx, request,
                   voting_round, active_players, votes_this_round, vote_target,
                   event_callback, delivered, generator>>

\* `except Exception as e` of run_game: the error event with the message,
\* then (finally) the None that ends the stream.
StreamError ==
    /\ pc = "raised"
    /\ OwnQueuePut(<<[type |-> "error", message |-> exception], EndOfStream>>)
    /\ pc' = "stream_done"
    /\ emitted' = <<>>
    /\ UNCHANGED <<call, returned, attempt, last_error,
                   config, phase, players, current_round, round_num,
                   all_clues, all_votes, sequential_votes, eliminated_players,
                   game_ended_early, conversation_history, idx, request,
                   voting_round, active_players, votes_this_round, vote_target,
                   result, exception, event_callback, delivered, generator>>

\* The running game task is suspended (at a model call), not yet started, or
\* over: the only points at which another task of the event loop runs.
GameSuspended ==
    pc \in {"run_game", "clue_await", "vote_await", "vote_retry_await",
            "stream_done", "cancelled"}

\* event_generator: `event = await asyncio.wait_for(event_queue.get(), ...)`
\* got an event: `break` on None, otherwise `yield` it.
GeneratorGets ==
    /\ generator = "await"
    /\ GameSuspended
    /\ event_queue # <<>>
    /\ event_queue' = Tail(event_queue)
    /\ IF Head(event_queue) = EndOfStream
       THEN /\ generator' = "returned"
            /\ UNCHANGED delivered
       ELSE /\ generator' = "yield"
            /\ delivered' = Append(delivered, Head(event_queue))
    /\ UNCHANGED <<call, returned, attempt, last_error, second_stream,
                   config, phase, players, current_round, round_num,
                   all_clues, all_votes, sequential_votes, eliminated_players,
                   game_ended_early, conversation_history, pc, idx, request,
                   emitted, voting_round, active_players, votes_this_round,
                   vote_target, result, exception, event_callback>>

\* event_generator: asyncio.TimeoutError on an empty queue, the keepalive
\* comment is yielded (a comment, not an event).
GeneratorKeepalive ==
    /\ generator = "await"
    /\ GameSuspended
    /\ event_queue = <<>>
    /\ generator' = "yield"
    /\ UNCHANGED <<call, returned, attempt, last_error, second_stream,
                   config, phase, players, current_round, round_num,
                   all_clues, all_votes, sequential_votes, eliminated_players,
                   game_ended_early, conversation_history, pc, idx, request,
                   emitted, voting_round, active_players, votes_this_round,
                   vote_target, result, exception, event_callback,
                   event_queue, delivered>>

\* The consumer asks for the next item: event_generator goes on after its
\* yield, back to awaiting the queue.
ConsumerResumes ==
    /\ generator = "yield"
    /\ GameSuspended
    /\ generator' = "await"
    /\ UNCHANGED <<call, returned, attempt, last_error, second_stream,
                   config, phase, players, current_round, round_num,
                   all_clues, all_votes, sequential_votes, eliminated_players,
                   game_ended_early, conversation_history, pc, idx, request,
                   emitted, voting_round, active_players, votes_this_round,
                   vote_target, result, exception, event_callback,
                   event_queue, delivered>>

\* game_task.cancel() was called and the game task has not run since: its
\* next step is the CancelledError, and the model call it waits for (or
\* its first step) never completes.
CancelRequested ==
    /\ generator = "cancelled"
    /\ pc \in {"run_game", "clue_await", "vote_await", "vote_retry_await"}

\* The consumer is cancelled while event_generator awaits the queue:
\* CancelledError is raised inside it, `except asyncio.CancelledError:
\* game_task.cancel(); raise`.  cancel() only requests the cancellation:
\* the generator is gone, the engine, the queue and the call in flight are
\* as they were until the game task runs.  A finished task is not affected.
ConsumerCancelledAtAwait ==
    /\ generator = "await"
    /\ GameSuspended
    /\ generator' = "cancelled"
    /\ UNCHANGED <<call, returned, attempt, last_error, second_stream,
                   config, phase, players, current_round, round_num,
                   all_clues, all_votes, sequential_votes, eliminated_players,
                   game_ended_early, conversation_history, pc, idx, request,
                   emitted, voting_round, active_players, votes_this_round,
                   vote_target, result, exception, event_callback,
                   event_queue, delivered>>

\* The game task runs after game_task.cancel(): a task waiting for a model
\* call gets CancelledError there, which no `except Exception` of the
\* engine or of run_game catches, and run_game's finally puts the None; a
\* task that had not started never enters run_game.
GameTaskCancelled ==
    /\ CancelRequested
    /\ pc' = "cancelled"
    /\ IF pc = "run_game"
       THEN UNCHANGED <<request, event_queue>>
       ELSE /\ request' = NoRequest
            /\ event_queue' = emit_event(event_queue, <<EndOfStream>>)
    /\ emitted' = <<>>
    /\ UNCHANGED <<call, returned, attempt, last_error, second_stream,
                   config, phase, players, current_round, round_num,
                   all_clues, all_votes, sequential_votes, eliminated_players,
                   game_ended_early, conversation_history, idx, voting_round,
                   active_players, votes_this_round, vote_target, result,
                   exception, event_callback, delivered, generator>>

\* The consumer is cancelled while event_generator is suspended at its
\* `yield`: the generator is closed there (GeneratorExit, which neither
\* `except asyncio.CancelledError` nor `except Exception` catches) or never
\* resumed; game_task.cancel() is not reached.
ConsumerCancelledAtYield ==
    /\ generator = "yield"
    /\ GameSuspended
    /\ generator' = "closed"
    /\ UNCHANGED <<call, returned, attempt, last_error, second_stream,
                   config, phase, players, current_round, round_num,
                   all_clues, all_votes, sequential_votes, eliminated_players,
                   game_ended_early, conversation_history, pc, idx, request,
                   emitted, voting_round, active_players, votes_this_round,
                   vote_target, result, exception, event_callback,
                   event_queue, delivered>>

\* The locals of the running game task.
Frame ==
    [pc |-> pc, idx |-> idx, round_num |-> round_num, request |-> request,
     voting_round |-> voting_round, active_players |-> active_players,
     votes_this_round |-> votes_this_round, vote_target |-> vote_target,
     result |-> result, exception |-> exception]

\* The locals of a game task that was created and has not run yet.
NewTaskFrame ==
    [pc |-> "run_game", idx |-> 0, round_num |-> 0, request |-> NoRequest,
     voting_round |-> 0, active_players |-> <<>>, votes_this_round |-> <<>>,
     vote_target |-> 0, result |-> NoResult, exception |-> "None"]

\* A further GET /api/game/{id}/stream for the same game, while the first
\* run waits for a model call or after it: stream_game finds the same
\* engine in game_sessions and makes a queue and a generator of its own;
\* the generator creates the game task and awaits the new, empty queue.
\* The first stream's queue and generator stay as they are and the engine
\* is untouched until the new game task runs.
StreamRequestAgain ==
    /\ second_stream = NoStream
    /\ GameSuspended
    /\ second_stream' = [event_queue |-> <<>>, running |-> "first",
                         other |-> NewTaskFrame]
    /\ UNCHANGED <<config, phase, players, current_round, round_num, all_clues,
                   all_votes, sequential_votes, eliminated_players,
                   game_ended_early, conversation_history, pc, idx, request,
                   emitted, voting_round, active_players, votes_this_round,
                   vote_target, result, exception, call, returned,
                   event_callback, event_queue, delivered, generator, attempt,
                   last_error>>

\* The event loop goes from one game task to the other: the running task
\* is suspended at a model call (or has not started, or is over) and the
\* other one, which is not over, is resumed where it stood.  Both tasks
\* drive the same engine: its players, logs, eliminated list, round, phase
\* and callback are as the task that ran last left them.
GameTaskSwitch ==
    /\ second_stream.other.pc \notin {"none", "stream_done", "cancelled"}
    /\ GameSuspended
    /\ pc' = second_stream.other.pc
    /\ idx' = second_stream.other.idx
    /\ round_num' = second_stream.other.round_num
    /\ request' = second_stream.other.request
    /\ voting_round' = second_stream.other.voting_round
    /\ active_players' = second_stream.other.active_players
    /\ votes_this_round' = second_stream.other.votes_this_round
    /\ vote_target' = second_stream.other.vote_target
    /\ result' = second_stream.other.result
    /\ exception' = second_stream.other.exception
    /\ second_stream' =
          [second_stream EXCEPT
              !.running = IF @ = "first" THEN "second" ELSE "first",
              !.other = Frame]
    /\ UNCHANGED <<config, phase, players, current_round, all_clues, all_votes,
                   sequential_votes, eliminated_players, game_ended_early,
                   conversation_history, emitted, call, returned,
                   event_callback, event_queue, delivered, generator, attempt,
                   last_error>>

NextStream ==
    \/ ~CancelRequested /\ StreamInitializeGame
    \/ StreamRoundStart
    \/ ClueRequest
    \/ ~CancelRequested /\ ClueCallFails
    \/ ~CancelRequested /\ \E response \in StreamClueResponses : ClueCallReturns(response)
    \/ StreamRoundEnd
    \/ VotingRoundStart
    \/ VoteRequest
    \/ ~CancelRequested /\ VoteCallFails
    \/ ~CancelRequested /\ \E response \in VoteResponses : VoteCallReturns(response)
    \/ ~CancelRequested /\ \E response \in VoteResponses : VoteRetryReturns(response)
    \/ ~CancelRequested /\ VoteRetryFails
    \/ Tally
    \/ StreamGameComplete
    \/ StreamError
    \/ GeneratorGets
    \/ GeneratorKeepalive
    \/ ConsumerResumes
    \/ ConsumerCancelledAtAwait
    \/ GameTaskCancelled
    \/ ConsumerCancelledAtYield

SpecStream == InitStream /\ [][NextStream]_vars

\* The stream endpoint called once or twice for the same game, for games
\* small enough to follow both runs to their end: one round, with one player
\* or with two players and no imposter.
StreamAgainConfigs ==
    {c \in ConfigsUpTo(MaxPlayers) :
        /\ ~c.enable_discussion
        /\ c.num_imposters <= c.num_players
        /\ c.num_rounds = 1
        /\ \/ c.num_players = 1
           \/ c.num_players = 2 /\ c.num_imposters = 0}

\* The clue responses of these games: the secret word and two clues that
\* pass validation, so that each of the two runs can record a clue.
StreamAgainClueResponses ==
    {r \in ClueResponses :
        r.clue \in {<<"a", "b", "c", "a">>, <<"c", "c">>, <<"B", "b">>}}

\* The stream endpoint was called for a created game of StreamAgainConfigs.
InitStreamAgain ==
    /\ InitWith(StreamAgainConfigs)
    /\ call = NoCall
    /\ returned = NoReturn
    /\ event_callback = "None"
    /\ event_queue = <<>>
    /\ delivered = <<>>
    /\ generator = "await"
    /\ attempt = 0
    /\ last_error = None
    /\ second_stream = NoStream

\* The game tasks of the two requests, each a run_game of stream_game on
\* the one engine, from the requests to the end of both runs.  The two
\* consumers are not followed: each queue holds, in order, what the
\* event_generator of its request has still to yield, and no consumer is
\* cancelled.
NextStreamAgain ==
    \/ StreamInitializeGame
    \/ StreamRoundStart
    \/ ClueRequest
    \/ ClueCallFails
    \/ \E response \in StreamAgainClueResponses : ClueCallReturns(response)
    \/ StreamRoundEnd
    \/ VotingRoundStart
    \/ VoteRequest
    \/ VoteCallFails
    \/ \E response \in VoteResponses : VoteCallReturns(response)
    \/ \E response \in VoteResponses : VoteRetryReturns(response)
    \/ VoteRetryFails
    \/ Tally
    \/ StreamGameComplete
    \/ StreamError
    \/ StreamRequestAgain
    \/ GameTaskSwitch

SpecStreamAgain == InitStreamAgain /\ [][NextStreamAgain]_vars

\* ------------------------------------------------- validation.py in isolation
\* The functions of validation.py called directly, on inputs drawn from
\* bounded sets: texts of up to MaxTextLen characters and one four-word clue.
TextAlphabet == {"a", "b", "A", " "}

Texts == UNION {[1..n -> TextAlphabet] : n \in 1..MaxTextLen}

FourWordClue == <<"b", " ", "b", " ", "b", " ", "b">>

CallWords ==
    {<<"A", "b", "b", "a">>, <<"a", "b", "a">>, <<"a", "b">>,
     <<" ", "a", "B", " ">>}

ValidateClueCalls ==
    {[fn |-> "validate_clue", clue |-> c, secret_word |-> w, player_id |-> 1,
      role |-> r] :
        c \in Texts \cup {FourWordClue}, w \in CallWords,
        r \in {IMPOSTER, NON_IMPOSTER}}

\* check_win_condition as the engine calls it for a game of MaxCallPlayers
\* players: any imposter list, any eliminated list of up to MaxEliminated
\* entries (an id can be listed more than once).
CallPlayerIds == [i \in 1..MaxCallPlayers |-> i]

ImposterLists ==
    {SelectIn(CallPlayerIds, ids) : ids \in SUBSET (1..MaxCallPlayers)}

EliminatedLists ==
    UNION {[1..n -> 1..MaxCallPlayers] : n \in 0..MaxEliminated}

CheckWinCalls ==
    {[fn |-> "check_win_condition", eliminated_players |-> e,
      all_imposters |-> imp,
      remaining_players |->
          SelectIn(CallPlayerIds, (1..MaxCallPlayers) \ Range(e)),
      num_civilians |-> MaxCallPlayers - Len(imp)] :
        imp \in ImposterLists, e \in EliminatedLists}

\* resolve_vote_tie on every listing, without repetition, of some of the
\* ids Player_1, Player_2, Player_3 and Player_10, under each method.
TieIds == {1, 2, 3, 10}

TiedListings ==
    {l \in UNION {[1..n -> TieIds] : n \in 1..Cardinality(TieIds)} :
        \A i, j \in 1..Len(l) : l[i] = l[j] => i = j}

TieMethods == {"random", "first", "revote"}

ResolveTieCalls ==
    {[fn |-> "resolve_vote_tie", tied_players |-> l, method |-> m] :
        l \in TiedListings, m \in TieMethods}

Calls == ValidateClueCalls \cup CheckWinCalls \cup ResolveTieCalls

\* The engine is idle; one call is about to be made.
InitCalls ==
    /\ InitWith(ConfigsUpTo(1))
    /\ config.num_players = 1 /\ config.num_imposters = 0
    /\ config.num_rounds = 1 /\ ~config.enable_discussion
    /\ call \in Calls
    /\ returned = NoReturn
    /\ event_callback = "callback"
    /\ event_queue = <<>>
    /\ delivered = <<>>
    /\ generator = "none"
    /\ attempt = 0
    /\ last_error = None
    /\ second_stream = NoStream

\* validate_clue(clue, secret_word, player_id, role)
CallValidateClue ==
    /\ call.fn = "validate_clue"
    /\ returned = NoReturn
    /\ returned' = validate_clue(call.clue, call.secret_word, call.player_id,
                                 call.role)
    /\ UNCHANGED <<event_callback, event_queue, delivered, generator,
                   attempt, last_error,
                   second_stream>>
    /\ UNCHANGED <<call, config, phase, players, current_round, round_num, all_clues,
                   all_votes, sequential_votes, eliminated_players,
                   game_ended_early, conversation_history, pc, idx, request,
                   emitted, voting_round, active_players, votes_this_round,
                   vote_target, result, exception>>

\* check_win_condition(eliminated_players, all_imposters, remaining_players,
\*                     num_civilians)
CallCheckWin ==
    /\ call.fn = "check_win_condition"
    /\ returned = NoReturn
    /\ returned' = check_win_condition(call.eliminated_players,
                                       call.all_imposters,
                                       call.remaining_players,
                                       call.num_civilians)
    /\ UNCHANGED <<event_callback, event_queue, delivered, generator,
                   attempt, last_error,
                   second_stream>>
    /\ UNCHANGED <<call, config, phase, players, current_round, round_num, all_clues,
                   all_votes, sequential_votes, eliminated_players,
                   game_ended_early, conversation_history, pc, idx, request,
                   emitted, voting_round, active_players, votes_this_round,
                   vote_target, result, exception>>

\* resolve_vote_tie(tied_players, method)
CallResolveTie ==
    /\ call.fn = "resolve_vote_tie"
    /\ returned = NoReturn
    /\ \E p \in resolve_vote_tie(call.tied_players, call.method) :
          returned' = [value |-> p]
    /\ UNCHANGED <<event_callback, event_queue, delivered, generator,
                   attempt, last_error,
                   second_stream>>
    /\ UNCHANGED <<call, config, phase, players, current_round, round_num, all_clues,
                   all_votes, sequential_votes, eliminated_players,
                   game_ended_early, conversation_history, pc, idx, request,
                   emitted, voting_round, active_players, votes_this_round,
                   vote_target, result, exception>>

NextCalls ==
    \/ CallValidateClue
    \/ CallCheckWin
    \/ CallResolveTie

SpecCalls == InitCalls /\ [][NextCalls]_vars

\* ------------------------------------------- the model-call capability
\* OpenRouterSDKClient.call of ai/openrouter_sdk.py, called directly.  An
\* error message is a sequence of words; str.lower() lowers each word and
\* `term in error_str` is containment of the term's words.
MaxRetries == 3

ErrorMessages ==
    {<<"Request", "timed", "out">>,
     <<"Rate", "limit", "exceeded">>,
     <<"Internal", "server", "error">>,
     <<"x/y", "is", "not", "a", "valid", "model", "ID">>,
     <<"Unauthorized">>,
     <<"Invalid", "API", "key">>}

LowerWord(w) ==
    CASE w = "Request" -> "request"
      [] w = "Rate" -> "rate"
      [] w = "Internal" -> "internal"
      [] w = "ID" -> "id"
      [] w = "Unauthorized" -> "unauthorized"
      [] w = "Invalid" -> "invalid"
      [] w = "API" -> "api"
      [] OTHER -> w

LowerWords(message) == [i \in 1..Len(message) |-> LowerWord(message[i])]

NonRetryableTerms ==
    {<<"not", "a", "valid", "model">>, <<"unauthorized">>,
     <<"invalid", "api", "key">>}

\* Mutant: every error is retried.
NonRetryableNever(e) == FALSE

\* any(term in error_str for term in ['not a valid model', 'unauthorized',
\* 'invalid api key']) with error_str = str(e).lower()
NonRetryable(e) ==
    \E term \in NonRetryableTerms : Contains(LowerWords(e), term)

\* call(messages, response_format=..., max_retries=...)
RetryCalls ==
    {[fn |-> "call", response_format |-> f, max_retries |-> m] :
        f \in BOOLEAN, m \in 0..MaxRetries}

\* The engine is idle; call(...) is about to enter its retry loop.
InitRetry ==
    /\ InitWith(ConfigsUpTo(1))
    /\ config.num_players = 1 /\ config.num_imposters = 0
    /\ config.num_rounds = 1 /\ ~config.enable_discussion
    /\ call \in RetryCalls
    /\ returned = NoReturn
    /\ event_callback = "callback"
    /\ event_queue = <<>>
    /\ delivered = <<>>
    /\ generator = "none"
    /\ attempt = 0
    /\ last_error = None
    /\ second_stream = NoStream

\* One pass of `for attempt in range(max_retries)` in which parse() returns:
\* the parsed object with a response_format, the content dict without.
AttemptSucceeds ==
    /\ call.fn = "call"
    /\ returned = NoReturn
    /\ attempt < call.max_retries
    /\ attempt' = attempt + 1
    /\ returned' = [value |-> IF call.response_format
                              THEN "parsed" ELSE "content"]
    /\ UNCHANGED <<event_callback, event_queue, delivered, generator,
                   last_error,
                   second_stream>>
    /\ UNCHANGED <<call, config, phase, players, current_round, round_num, all_clues,
                   all_votes, sequential_votes, eliminated_players,
                   game_ended_early, conversation_history, pc, idx, request,
                   emitted, voting_round, active_players, votes_this_round,
                   vote_target, result, exception>>

\* One pass in which parse() raises e: last_error = e; a non-retryable
\* error is re-raised at once; otherwise the backoff sleep (not after the
\* last attempt) and the next pass.
AttemptFails(e) ==
    /\ call.fn = "call"
    /\ returned = NoReturn
    /\ attempt < call.max_retries
    /\ attempt' = attempt + 1
    /\ last_error' = e
    /\ returned' = IF NonRetryable(e) THEN [raised |-> e] ELSE NoReturn
    /\ UNCHANGED <<event_callback, event_queue, delivered, generator,
                   second_stream>>
    /\ UNCHANGED <<call, config, phase, players, current_round, round_num, all_clues,
                   all_votes, sequential_votes, eliminated_players,
                   game_ended_early, conversation_history, pc, idx, request,
                   emitted, voting_round, active_players, votes_this_round,
                   vote_target, result, exception>>

\* After the loop: `raise last_error`; with no attempt made last_error is
\* None and the raise statement itself fails with TypeError.
RetriesExhausted ==
    /\ call.fn = "call"
    /\ returned = NoReturn
    /\ attempt >= call.max_retries
    /\ returned' = IF last_error = None
                   THEN [raised |-> <<"TypeError">>]
                   ELSE [raised |-> last_error]
    /\ UNCHANGED <<event_callback, event_queue, delivered, generator,
                   attempt, last_error,
                   second_stream>>
    /\ UNCHANGED <<call, config, phase, players, current_round, round_num, all_clues,
                   all_votes, sequential_votes, eliminated_players,
                   game_ended_early, conversation_history, pc, idx, request,
                   emitted, voting_round, active_players, votes_this_round,
                   vote_target, result, exception>>

NextRetry ==
    \/ AttemptSucceeds
    \/ \E e \in ErrorMessages : AttemptFails(e)
    \/ RetriesExhausted

SpecRetry == InitRetry /\ [][NextRetry]_vars

\* --------------------------------------------------------- model assignment
\* GameEngine._assign_models called directly.
ModelDistributions ==
    {NoDistribution}
    \cup {[given |-> TRUE, items |-> d] :
            d \in {<<>>,
                   <<<<"haiku", 1>>>>,
                   <<<<"haiku", 0>>>>,
                   <<<<"llama", 2>>, <<"haiku", 1>>>>,
                   <<<<"haiku", 3>>, <<"llama", 2>>>>}}

ModelStrategies == {"single", "mixed", "role-based", "round-robin"}

AssignModelsCalls ==
    {[fn |-> "_assign_models", model_strategy |-> s, default_model |-> m,
      model_distribution |-> d, player_ids |-> PlayerIds(n),
      imposter_ids |-> imp] :
        s \in ModelStrategies, m \in {"gemini-3", "llama"},
        d \in ModelDistributions, n \in 1..MaxCallPlayers,
        imp \in {s2 \in ImposterLists : Len(s2) <= 1}}

\* The engine is idle; _assign_models is about to be called.
InitAssign ==
    /\ InitWith(ConfigsUpTo(1))
    /\ config.num_players = 1 /\ config.num_imposters = 0
    /\ config.num_rounds = 1 /\ ~config.enable_discussion
    /\ call \in AssignModelsCalls
    /\ returned = NoReturn
    /\ event_callback = "callback"
    /\ event_queue = <<>>
    /\ delivered = <<>>
    /\ generator = "none"
    /\ attempt = 0
    /\ last_error = None
    /\ second_stream = NoStream

CallAssignModels ==
    /\ call.fn = "_assign_models"
    /\ returned = NoReturn
    /\ \E assignments \in assign_models(call) :
          returned' = [value |-> assignments]
    /\ UNCHANGED <<event_callback, event_queue, delivered, generator,
                   attempt, last_error,
                   second_stream>>
    /\ UNCHANGED <<call, config, phase, players, current_round, round_num, all_clues,
                   all_votes, sequential_votes, eliminated_players,
                   game_ended_early, conversation_history, pc, idx, request,
                   emitted, voting_round, active_players, votes_this_round,
                   vote_target, result, exception>>

NextAssign == CallAssignModels

SpecAssign == InitAssign /\ [][NextAssign]_vars

\* ------------------------------------------------------ legacy batch engine
\* GameEngine of phase2: every round asks all players at once through
\* OpenRouterClient.batch_call and records the answers afterwards.  The
\* call in flight is `call`, what asyncio.gather handed back is `returned`.
\* A request is represented by what the engine passes to the player's
\* message builder.
BatchConfigs ==
    {c \in ConfigsUpTo(MaxPlayers) : c.num_imposters <= c.num_players}

BatchException == [exception |-> "Exception"]

IsException(response) == "exception" \in DOMAIN response

BatchClueResponses ==
    {[thinking |-> "private thinking", clue |-> c, confidence |-> 50] :
        c \in {<<"b", "c">>}}

\* VoteResponse of the batch engine: a list of suspects.
BatchVoteResponses ==
    {[thinking |-> "private thinking", votes |-> v,
      reasoning_per_player |-> "reasoning", confidence |-> 50] :
        v \in {<<1>>, <<3, 2>>}}

\* initialize_game of the batch engine.
BatchInitializeGame ==
    /\ pc = "run_game"
    /\ call = NoCall
    /\ LET player_ids == PlayerIds(config.num_players)
       IN IF SampleRaises(player_ids, config.num_imposters)
          THEN /\ pc' = "raised"
               /\ exception' = "ValueError"
               /\ UNCHANGED <<players, conversation_history>>
          ELSE \E imposter_ids \in random_sample(player_ids, config.num_imposters) :
               \E model_assignments \in ModelAssignments(player_ids, imposter_ids) :
               /\ players' = players \o [i \in 1..Len(player_ids) |->
                                AIPlayer(player_ids[i], imposter_ids, config.word,
                                         model_assignments[player_ids[i]])]
               /\ conversation_history' =
                     conversation_history \o [i \in 1..Len(player_ids) |-> <<>>]
               /\ pc' = "batch_round_start"
               /\ UNCHANGED exception
    /\ phase' = SETUP
    /\ UNCHANGED <<config, current_round, round_num, all_clues, all_votes, idx, result,
                   call, returned, sequential_votes, eliminated_players,
                   game_ended_early, request, emitted,
                   voting_round, active_players, votes_this_round,
                   vote_target, event_callback, event_queue, delivered,
                   generator, attempt, last_error,
                   second_stream>>

\* Top of `for round_num in range(1, num_rounds + 1)` of the batch engine.
\* With a round to play: _execute_clue_round up to the await, one context
\* for the round, one request per player built from it, then batch_call.
\* With no round to play: the voting phase, _execute_voting up to its await.
BatchClueRequests ==
    /\ pc = "batch_round_start"
    /\ IF round_num < config.num_rounds
       THEN /\ round_num' = round_num + 1
            /\ current_round' = round_num + 1
            /\ phase' = CLUE_ROUND
            /\ LET context == [current_round |-> round_num + 1,
                               clues_so_far |-> get_clue_dicts]
               IN call' = [fn |-> "batch_call", response_format |-> "ClueResponse",
                           requests |-> [i \in 1..Len(players) |->
                                           [player_id |-> players[i].player_id,
                                            context |-> context]]]
       ELSE /\ phase' = VOTING
            /\ call' = [fn |-> "batch_call", response_format |-> "VoteResponse",
                        requests |-> [i \in 1..Len(players) |->
                                        [player_id |-> players[i].player_id,
                                         all_clues |-> get_clue_dicts,
                                         word |-> config.word]]]
            /\ UNCHANGED <<round_num, current_round>>
    /\ returned' = NoReturn
    /\ pc' = "batch_await"
    /\ UNCHANGED <<config, players, all_clues, all_votes, idx, result,
                   exception, sequential_votes, eliminated_players,
                   game_ended_early, conversation_history, request, emitted,
                   voting_round, active_players, votes_this_round,
                   vote_target, event_callback, event_queue, delivered,
                   generator, attempt, last_error,
                   second_stream>>

\* batch_call: asyncio.gather(*tasks, return_exceptions=True) hands back one
\* entry per request, a response of the format or the exception of the call;
\* then the loop over zip(self.players, responses) starts.  With no player
\* or no response it has no pass: after the clues run_game goes on to the
\* next round or to the voting phase, after the votes to the results.
BatchCallReturns ==
    /\ pc = "batch_await"
    /\ LET formats == IF call.response_format = "ClueResponse"
                      THEN BatchClueResponses ELSE BatchVoteResponses
       IN \E results \in [1..Len(call.requests) -> formats \cup {BatchException}] :
             returned' = [value |-> results]
    /\ IF players # <<>> /\ call.requests # <<>>
       THEN /\ idx' = 1
            /\ pc' = IF call.response_format = "ClueResponse"
                     THEN "batch_clue_record" ELSE "batch_vote_record"
            /\ UNCHANGED phase
       ELSE IF call.response_format = "ClueResponse"
       THEN /\ phase' = IF config.enable_discussion THEN DISCUSSION ELSE phase
            /\ pc' = IF round_num < config.num_rounds
                     THEN "batch_round_start" ELSE "batch_voting"
            /\ UNCHANGED idx
       ELSE /\ pc' = "batch_results"
            /\ UNCHANGED <<phase, idx>>
    /\ UNCHANGED <<config, players, current_round, round_num, all_clues,
                   all_votes, result, exception, call, sequential_votes,
                   eliminated_players, game_ended_early, conversation_history,
                   request, emitted, voting_round, active_players,
                   votes_this_round, vote_target, event_callback, event_queue,
                   delivered, generator, attempt, last_error,
                   second_stream>>

\* len() of the thinking text the engine writes itself.
ThinkingLength(thinking) ==
    CASE thinking = "[API ERROR]" -> 11

\* VoteResponse: thinking min_length.
VoteThinkingMinLength == 20

\* VoteResponse(thinking=..., votes=[], ...) raises ValidationError.
VoteResponseRaises(thinking) ==
    ThinkingLength(thinking) < VoteThinkingMinLength

\* The response the clue loop records for an entry of the batch: a failed
\* call is replaced by a ClueResponse the engine constructs (its thinking
\* and clue satisfy the schema's lengths).
BatchClueOf(response) ==
    IF IsException(response)
    THEN [thinking |-> "[API ERROR - Could not get response]",
          clue |-> <<".", ".", ".">>, confidence |-> 0]
    ELSE response

\* The response the voting loop records for an entry of the batch: a failed
\* call is replaced by a VoteResponse the engine constructs, and that
\* constructor raises on its thinking text.
BatchVoteOf(response) ==
    IF IsException(response)
    THEN IF VoteResponseRaises("[API ERROR]")
         THEN [exception |-> "ValidationError"]
         ELSE [thinking |-> "[API ERROR]", votes |-> <<>>,
               reasoning_per_player |-> <<>>, confidence |-> 0]
    ELSE response

\* One pass of `for player, response in zip(self.players, responses)` of
\* _execute_clue_round; after the last one run_game goes on to the next
\* round or to the voting phase.
BatchRecordClue ==
    /\ pc = "batch_clue_record"
    /\ LET player == PlayerAt(idx)
           response == BatchClueOf(returned.value[idx])
       IN /\ all_clues' = Append(all_clues,
                [round |-> current_round, player_id |-> player.player_id,
                 role |-> player.role, clue |-> response.clue,
                 thinking |-> response.thinking,
                 confidence |-> response.confidence])
          /\ conversation_history' = record_clue(player, response)
    /\ IF idx < Len(players)
       THEN /\ idx' = idx + 1
            /\ UNCHANGED <<pc, phase>>
       ELSE /\ idx' = 0
            /\ phase' = IF config.enable_discussion THEN DISCUSSION ELSE phase
            /\ pc' = IF round_num < config.num_rounds
                     THEN "batch_round_start" ELSE "batch_voting"
    /\ UNCHANGED <<config, players, current_round, round_num, all_votes, result,
                   exception, call, returned, sequential_votes,
                   eliminated_players, game_ended_early,
                   request, emitted, voting_round, active_players,
                   votes_this_round, vote_target, event_callback, event_queue,
                   delivered, generator, attempt, last_error,
                   second_stream>>

\* _execute_voting up to the await.
BatchVoteRequests ==
    /\ pc = "batch_voting"
    /\ phase' = VOTING
    /\ call' = [fn |-> "batch_call", response_format |-> "VoteResponse",
                requests |-> [i \in 1..Len(players) |->
                                [player_id |-> players[i].player_id,
                                 all_clues |-> get_clue_dicts,
                                 word |-> config.word]]]
    /\ returned' = NoReturn
    /\ pc' = "batch_await"
    /\ UNCHANGED <<config, players, current_round, round_num, all_clues, all_votes, idx,
                   result, exception, sequential_votes, eliminated_players,
                   game_ended_early, conversation_history, request, emitted,
                   voting_round, active_players, votes_this_round,
                   vote_target, event_callback, event_queue, delivered,
                   generator, attempt, last_error,
                   second_stream>>

\* One pass of the loop of _execute_voting over zip(self.players, responses).
BatchRecordVote ==
    /\ pc = "batch_vote_record"
    /\ LET player == PlayerAt(idx)
           response == BatchVoteOf(returned.value[idx])
       IN IF IsException(response)
          THEN /\ pc' = "raised"
               /\ exception' = response.exception
               /\ UNCHANGED <<all_votes, conversation_history, idx>>
          ELSE /\ all_votes' = Append(all_votes,
                     [player_id |-> player.player_id,
                      voted_for |-> response.votes,
                      reasoning |-> response.reasoning_per_player,
                      thinking |-> response.thinking,
                      confidence |-> response.confidence])
               /\ conversation_history' = record_vote(player, response)
               /\ UNCHANGED exception
               /\ IF idx < Len(players)
                  THEN /\ idx' = idx + 1
                       /\ pc' = pc
                  ELSE /\ idx' = 0
                       /\ pc' = "batch_results"
    /\ UNCHANGED <<config, phase, players, current_round, round_num, all_clues, result,
                   call, returned, sequential_votes,
                   eliminated_players, game_ended_early,
                   request, emitted, voting_round, active_players,
                   votes_this_round, vote_target, event_callback, event_queue,
                   delivered, generator, attempt, last_error,
                   second_stream>>

\* sorted(vote_counts.items(), key=count, reverse=True): stable, so equal
\* counts keep their insertion order.
RECURSIVE BatchSorted(_, _)
BatchSorted(keys, suspects) ==
    IF keys = <<>> THEN <<>>
    ELSE LET top == CHOOSE i \in 1..Len(keys) :
                 /\ \A j \in 1..Len(keys) :
                       LegacyVoteCount(suspects, keys[j]) <= LegacyVoteCount(suspects, keys[i])
                 /\ \A j \in 1..(i - 1) :
                       LegacyVoteCount(suspects, keys[j]) < LegacyVoteCount(suspects, keys[i])
         IN <<keys[top]>>
            \o BatchSorted(SelectIn(keys, Range(keys) \ {keys[top]}), suspects)

\* _calculate_results of the batch engine: the num_imposters most voted
\* players are eliminated; the accuracy (in percent) divides by the number
\* of imposters.
BatchCalculateResults ==
    /\ pc = "batch_results"
    /\ LET suspects == LegacySuspects(all_votes)
           sorted_suspects == BatchSorted(LegacyVoteKeys(suspects), suspects)
           eliminated == SubSeq(sorted_suspects, 1,
                                IF config.num_imposters < Len(sorted_suspects)
                                THEN config.num_imposters
                                ELSE Len(sorted_suspects))
           correctly_identified == Range(eliminated) \cap Range(ImposterIds)
       IN IF Len(ImposterIds) = 0
          THEN /\ phase' = REVEAL
               /\ pc' = "raised"
               /\ exception' = "ZeroDivisionError"
               /\ UNCHANGED result
          ELSE /\ phase' = COMPLETE
               /\ pc' = "done"
               /\ result' = [word |-> config.word,
                             actual_imposters |-> ImposterIds,
                             eliminated_players |-> eliminated,
                             detection_accuracy |->
                                 (100 * Cardinality(correctly_identified))
                                     \div Len(ImposterIds),
                             total_rounds |-> current_round,
                             all_clues |-> all_clues,
                             all_votes |-> all_votes]
               /\ UNCHANGED exception
    /\ UNCHANGED <<config, players, current_round, round_num, all_clues, all_votes, idx,
                   call, returned, sequential_votes, eliminated_players,
                   game_ended_early, conversation_history, request, emitted,
                   voting_round, active_players, votes_this_round,
                   vote_target, event_callback, event_queue, delivered,
                   generator, attempt, last_error,
                   second_stream>>

\* stream_game of the batch engine's API drives the engine itself, from
\* inside its event generator; `delivered` holds what it has yielded.
\* First leg: initialize_game, then the game_start event is yielded; a
\* ValueError of random.sample is caught and yielded as an error event.
BatchStreamStart ==
    /\ pc = "run_game"
    /\ call = NoCall
    /\ LET player_ids == PlayerIds(config.num_players)
       IN IF SampleRaises(player_ids, config.num_imposters)
          THEN /\ pc' = "batch_stream_failed"
               /\ exception' = "ValueError"
               /\ delivered' = Append(delivered,
                                      [type |-> "error", message |-> "ValueError"])
               /\ UNCHANGED <<players, conversation_history>>
          ELSE \E imposter_ids \in random_sample(player_ids, config.num_imposters) :
               \E model_assignments \in ModelAssignments(player_ids, imposter_ids) :
               /\ players' = players \o [i \in 1..Len(player_ids) |->
                                AIPlayer(player_ids[i], imposter_ids, config.word,
                                         model_assignments[player_ids[i]])]
               /\ conversation_history' =
                     conversation_history \o [i \in 1..Len(player_ids) |-> <<>>]
               /\ delivered' =
                     Append(delivered,
                            [type |-> "game_start",
                             players |-> [i \in 1..Len(players') |->
                                 [id |-> players'[i].player_id,
                                  model |-> players'[i].model_name]]])
               /\ pc' = "batch_stream_started"
               /\ UNCHANGED exception
    /\ phase' = SETUP
    /\ generator' = "yield"
    /\ UNCHANGED <<config, current_round, round_num, all_clues, all_votes, idx, result,
                   call, returned, sequential_votes, eliminated_players,
                   game_ended_early, request, emitted, voting_round,
                   active_players, votes_this_round, vote_target,
                   event_callback, event_queue, attempt, last_error,
                   second_stream>>

\* Second leg: the generator is resumed.  With a round to play it sets
\* engine.current_round to the first round and yields round_start; with
\* none it yields voting_start.
BatchStreamRound ==
    /\ pc = "batch_stream_started"
    /\ IF 1 <= config.num_rounds
       THEN /\ round_num' = 1
            /\ current_round' = 1
            /\ delivered' = Append(delivered,
                                   [type |-> "round_start", round |-> 1,
                                    total_rounds |-> config.num_rounds])
            /\ pc' = "batch_stream_round"
       ELSE /\ delivered' = Append(delivered, [type |-> "voting_start"])
            /\ pc' = "batch_stream_voting"
            /\ UNCHANGED <<round_num, current_round>>
    /\ UNCHANGED <<config, phase, players, all_clues, all_votes, idx, result,
                   exception, call, returned, sequential_votes,
                   eliminated_players, game_ended_early, conversation_history,
                   request, emitted, voting_round, active_players,
                   votes_this_round, vote_target, event_callback, event_queue,
                   generator, attempt, last_error,
                   second_stream>>

\* Third leg: the generator is resumed after round_start (voting_start)
\* and stands at `await asyncio.sleep(1)`; the engine is as it was.
BatchStreamSleeps ==
    /\ pc \in {"batch_stream_round", "batch_stream_voting"}
    /\ generator = "yield"
    /\ generator' = "await"
    /\ UNCHANGED <<config, phase, players, current_round, round_num, all_clues,
                   all_votes, idx, result, exception, call, returned,
                   sequential_votes, eliminated_players, game_ended_early,
                   conversation_history, request, emitted, voting_round,
                   active_players, votes_this_round, vote_target,
                   event_callback, event_queue, delivered, pc, attempt,
                   last_error,
                   second_stream>>

\* Fourth leg: after the sleep, engine._build_context_for_all() (after
\* voting_start, engine._prepare_vote_requests()) is not a method of the
\* engine; the AttributeError is caught and yielded as an error event.
BatchStreamFails ==
    /\ pc \in {"batch_stream_round", "batch_stream_voting"}
    /\ generator = "await"
    /\ exception' = "AttributeError"
    /\ delivered' = Append(delivered,
                           [type |-> "error", message |-> "AttributeError"])
    /\ generator' = "yield"
    /\ pc' = "batch_stream_failed"
    /\ UNCHANGED <<config, phase, players, current_round, round_num, all_clues,
                   all_votes, idx, result, call, returned, sequential_votes,
                   eliminated_players, game_ended_early, conversation_history,
                   request, emitted, voting_round, active_players,
                   votes_this_round, vote_target, event_callback, event_queue,
                   attempt, last_error,
                   second_stream>>

\* Last leg: the consumer asks for the item after the error event; the
\* `except` block is over and event_generator ends.
BatchStreamEnds ==
    /\ pc = "batch_stream_failed"
    /\ generator = "yield"
    /\ generator' = "returned"
    /\ UNCHANGED <<config, phase, players, current_round, round_num, all_clues,
                   all_votes, idx, result, exception, call, returned,
                   sequential_votes, eliminated_players, game_ended_early,
                   conversation_history, request, emitted, voting_round,
                   active_players, votes_this_round, vote_target,
                   event_callback, event_queue, delivered, pc, attempt,
                   last_error,
                   second_stream>>

InitBatch == InitWith(BatchConfigs) /\ NoDirectCall

NextBatch ==
    \/ BatchStreamStart
    \/ BatchStreamRound
    \/ BatchStreamSleeps
    \/ BatchStreamFails
    \/ BatchStreamEnds
    \/ BatchInitializeGame
    \/ BatchClueRequests
    \/ BatchCallReturns
    \/ BatchRecordClue
    \/ BatchVoteRequests
    \/ BatchRecordVote
    \/ BatchCalculateResults

SpecBatch == InitBatch /\ [][NextBatch]_vars

\* ================================================================== claims
Last(s) == s[Len(s)]

InSubRound == pc \in {"vote_turn", "vote_await", "vote_retry_await", "tally"}

\* The step is a clue turn that ended with this first event.
ClueTurnEnds == pc = "clue_await" /\ emitted' # <<>>

\* The step is a clue turn in which the player at idx said the secret word.
SaidSecretWord(role) ==
    /\ ClueTurnEnds
    /\ emitted'[1].type = "validation_error"
    /\ emitted'[1].player_id = players[idx].player_id
    /\ ExactWordMatch(emitted'[1].clue, config.word)
    /\ players[idx].role = role

\* ---------------------------------------------------------------------- C1
\* C1: within a clue round the turns are strictly sequential: the clue
\* request in flight for a player carries, record for record, the round,
\* player and text of every clue recorded so far (those of the same round
\* included), and a turn that ends with a clue event has appended that
\* player's clue to the log, so the next request is built after it.
C1_RequestCarriesLog ==
    pc = "clue_await" =>
        LET prompt == Last(request).content
        IN /\ prompt.player_id = players[idx].player_id
           /\ Len(prompt.previous_clues) = Len(all_clues)
           /\ \A i \in 1..Len(all_clues) :
                 /\ prompt.previous_clues[i].round = all_clues[i].round
                 /\ prompt.previous_clues[i].player_id = all_clues[i].player_id
                 /\ prompt.previous_clues[i].clue = all_clues[i].clue

C1_ClueAppendedBeforeNextTurn ==
    (ClueTurnEnds /\ emitted'[1].type = "clue") =>
        /\ Len(all_clues') = Len(all_clues) + 1
        /\ SubSeq(all_clues', 1, Len(all_clues)) = all_clues
        /\ Last(all_clues').player_id = players[idx].player_id
        /\ Last(all_clues').round = current_round
        /\ Last(all_clues').clue = emitted'[1].clue
        /\ pc' \in {"clue_turn", "round_end"}

C1_SequentialClueTurns ==
    []C1_RequestCarriesLog /\ [][C1_ClueAppendedBeforeNextTurn]_vars

\* A later player's request in flight holds a clue given earlier in the
\* same round.
C1_Witness ==
    /\ pc = "clue_await"
    /\ idx >= 2
    /\ \E i \in 1..Len(all_clues) :
          /\ all_clues[i].round = current_round
          /\ all_clues[i].player_id < players[idx].player_id
          /\ Last(request).content.previous_clues[i].clue = all_clues[i].clue

\* ---------------------------------------------------------------------- C2
\* C2: when a non-imposter's clue equals the secret word, the turn sets the
\* early-termination flag and ends the round at once; from then on no clue,
\* vote or elimination is recorded, the round number stays, the phase is
\* never VOTING and no vote request is built; the game goes to the result,
\* whose total_rounds is the round of the spoil.
C2_SpoilEndsRound ==
    SaidSecretWord(NON_IMPOSTER) =>
        /\ game_ended_early'
        /\ pc' = "round_end"
        /\ all_clues' = all_clues
        /\ eliminated_players' = eliminated_players

C2_NothingAfterSpoil ==
    game_ended_early =>
        /\ UNCHANGED <<current_round, round_num, all_clues, sequential_votes,
                       eliminated_players, request>>
        /\ phase' # VOTING
        /\ pc' \in {"after_rounds", "calculate_results", "complete", "done"}

C2_SpoiledState ==
    game_ended_early =>
        /\ pc \in {"round_end", "after_rounds", "calculate_results",
                   "complete", "done"}
        /\ phase \in {CLUE_ROUND, REVEAL, COMPLETE}
        /\ sequential_votes = <<>>
        /\ request = NoRequest
        /\ (pc \in {"complete", "done"} => result.total_rounds = current_round)

C2_FatalClueSkipsVoting ==
    /\ []C2_SpoiledState
    /\ [][C2_SpoilEndsRound /\ C2_NothingAfterSpoil]_vars

\* A game of two configured rounds spoiled in round 1 by the first of three
\* players is complete with total_rounds = 1.
C2_Witness ==
    /\ pc = "done"
    /\ game_ended_early
    /\ config.num_rounds = 2
    /\ config.num_players = 3
    /\ result.total_rounds = 1
    /\ idx = 1

\* ---------------------------------------------------------------------- C3
\* C3: when an imposter's clue equals the secret word, the turn appends that
\* imposter to the eliminated list, emits instant_reveal after the
\* validation_error, records no clue, leaves the early-termination flag
\* unset and moves on to the next player; in every voting sub-round no
\* eliminated player is a voter or a valid target.
C3_InstantReveal ==
    SaidSecretWord(IMPOSTER) =>
        /\ eliminated_players' = Append(eliminated_players, players[idx].player_id)
        /\ Len(emitted') = 2
        /\ emitted'[2].type = "instant_reveal"
        /\ emitted'[2].player_id = players[idx].player_id
        /\ all_clues' = all_clues
        /\ conversation_history' = conversation_history
        /\ ~game_ended_early'
        /\ idx' = idx + 1
        /\ pc' = IF idx < config.num_players THEN "clue_turn" ELSE "round_end"

C3_RevealedOutOfVoting ==
    InSubRound =>
        /\ Range(ActiveIds) \cap Range(eliminated_players) = {}
        /\ \A i \in 1..Len(votes_this_round) :
              /\ votes_this_round[i].player_id \notin Range(eliminated_players)
              /\ votes_this_round[i].vote \notin Range(eliminated_players)
        /\ Len(active_players) =
              config.num_players - Cardinality(Range(eliminated_players))

C3_ImposterInstantReveal ==
    []C3_RevealedOutOfVoting /\ [][C3_InstantReveal]_vars

\* Three players, one instant reveal: the voting sub-round has two active
\* players and both have voted.
C3_Witness ==
    /\ pc = "tally"
    /\ config.num_players = 3
    /\ Len(eliminated_players) = 1
    /\ players[eliminated_players[1]].role = IMPOSTER
    /\ Len(active_players) = 2
    /\ Len(votes_this_round) = 2

\* ---------------------------------------------------------------------- C4
\* C4: a player eliminated by instant reveal is never asked for a clue
\* again: no clue request is in flight for a player on the eliminated list.
C4_NoTurnAfterReveal ==
    pc = "clue_await" =>
        players[idx].player_id \notin Range(eliminated_players)

\* ---------------------------------------------------------------------- C5
PhaseRank(ph) ==
    CASE ph = SETUP -> 0
      [] ph = CLUE_ROUND -> 1
      [] ph = DISCUSSION -> 2
      [] ph = VOTING -> 3
      [] ph = REVEAL -> 4
      [] ph = COMPLETE -> 5

\* C5: the phase only moves forward along SETUP, CLUE_ROUND, DISCUSSION,
\* VOTING, REVEAL, COMPLETE: no step takes it to a phase that precedes the
\* one it is in.
C5_PhaseForward == [][PhaseRank(phase') >= PhaseRank(phase)]_vars

\* ---------------------------------------------------------------------- C6
ValidImposterCount ==
    0 < config.num_imposters /\ config.num_imposters < config.num_players

\* C6: a configuration that violates 0 < K < N is rejected at setup: no
\* player is ever created and no model call is ever dispatched for it.
C6_SetupRejectsInvalidCount ==
    ~ValidImposterCount =>
        /\ players = <<>>
        /\ request = NoRequest
        /\ pc \in {"run_game", "raised"}

\* ---------------------------------------------------------------------- C7
\* C7: after setup there are N players with the ids 1..N in order, exactly
\* K of them imposters, each player holds the secret word if and only if
\* it is a non-imposter; the players never change once created, and the
\* imposter list of the GameResult has K distinct entries, the imposters.
C7_RolesAfterSetup ==
    players # <<>> =>
        /\ Len(players) = config.num_players
        /\ \A i \in 1..Len(players) :
              /\ players[i].player_id = i
              /\ players[i].role \in {IMPOSTER, NON_IMPOSTER}
              /\ (players[i].secret_word = config.word) <=> (players[i].role = NON_IMPOSTER)
              /\ (players[i].secret_word = None) <=> (players[i].role = IMPOSTER)
        /\ Cardinality({i \in 1..Len(players) : players[i].role = IMPOSTER})
              = config.num_imposters
        /\ (pc = "done" =>
              /\ Len(result.actual_imposters) = config.num_imposters
              /\ Cardinality(Range(result.actual_imposters)) = config.num_imposters
              /\ \A p \in Range(result.actual_imposters) : players[p].role = IMPOSTER)

C7_ImposterPartition ==
    []C7_RolesAfterSetup /\ [][players # <<>> => players' = players]_vars

\* A finished game of three players with one imposter.
C7_Witness ==
    /\ pc = "done"
    /\ config.num_players = 3
    /\ config.num_imposters = 1
    /\ Len(result.actual_imposters) = 1

\* ---------------------------------------------------------------------- C8
VoteTargetAllowed(voter, target) ==
    /\ target \in 1..config.num_players
    /\ target # voter
    /\ target \notin Range(eliminated_players)
    /\ voter \notin Range(eliminated_players)

\* C8: every step that records a vote appends one SingleVoteRecord whose
\* target is, at that moment, a player of the game that is not eliminated
\* and is not the voter, and the vote event and the entry that the tally
\* counts name the same target; the votes a tally counts are all of this kind.
C8_RecordedVote ==
    sequential_votes' # sequential_votes =>
        /\ sequential_votes' = Append(sequential_votes, Last(sequential_votes'))
        /\ Last(sequential_votes').player_id = ActiveIds[idx]
        /\ VoteTargetAllowed(Last(sequential_votes').player_id,
                             Last(sequential_votes').voted_for)
        /\ votes_this_round' =
              Append(votes_this_round,
                     [player_id |-> Last(sequential_votes').player_id,
                      vote |-> Last(sequential_votes').voted_for,
                      reasoning |-> Last(sequential_votes').reasoning])
        /\ emitted'[1].type = "vote"
        /\ emitted'[1].vote = Last(sequential_votes').voted_for
        /\ emitted'[1].player_id = Last(sequential_votes').player_id

C8_CountedVotes ==
    InSubRound =>
        \A i \in 1..Len(votes_this_round) :
            VoteTargetAllowed(votes_this_round[i].player_id, votes_this_round[i].vote)

C8_VoteTargetsValid == []C8_CountedVotes /\ [][C8_RecordedVote]_vars

\* A sub-round after an instant reveal in which the two remaining players
\* have voted.
C8_Witness ==
    /\ pc = "tally"
    /\ eliminated_players # <<>>
    /\ Len(votes_this_round) = 2
    /\ Len(sequential_votes) = 2

\* ---------------------------------------------------------------------- C9
\* C9: a first vote with an invalid target dispatches one corrective
\* re-prompt: the original messages, then the rejected vote, then the list
\* of valid targets, and records nothing.  The re-prompt is never repeated:
\* its outcome is either a recorded vote for a valid target, or the error
\* event naming the voter with recoverable = FALSE and a RuntimeError, with
\* no vote recorded and nobody eliminated.
C9_CorrectivePrompt ==
    pc' = "vote_retry_await" =>
        /\ pc = "vote_await"
        /\ vote_target' \notin
              (Range(ActiveIds) \ {ActiveIds[idx]})
        /\ Len(request') = Len(request) + 2
        /\ SubSeq(request', 1, Len(request)) = request
        /\ request'[Len(request) + 1].role = "assistant"
        /\ request'[Len(request) + 1].content.vote = vote_target'
        /\ request'[Len(request) + 2].role = "user"
        /\ Range(request'[Len(request) + 2].content.valid_targets)
              = Range(ActiveIds) \ {ActiveIds[idx]}
        /\ UNCHANGED <<sequential_votes, votes_this_round, eliminated_players, idx>>

C9_AfterCorrection ==
    pc = "vote_retry_await" =>
        \/ /\ pc' \in {"vote_turn", "tally"}
           /\ Len(sequential_votes') = Len(sequential_votes) + 1
           /\ Last(sequential_votes').player_id = ActiveIds[idx]
           /\ Last(sequential_votes').voted_for
                 \in Range(ActiveIds) \ {ActiveIds[idx]}
        \/ /\ pc' = "raised"
           /\ exception' = "RuntimeError"
           /\ emitted' = <<[type |-> "error", player_id |-> ActiveIds[idx],
                            recoverable |-> FALSE]>>
           /\ vote_target' \notin Range(ActiveIds) \ {ActiveIds[idx]}
           /\ UNCHANGED <<sequential_votes, votes_this_round, eliminated_players>>

C9_InvalidVoteOneRetry == [][C9_CorrectivePrompt /\ C9_AfterCorrection]_vars

\* The run was ended by a self-vote that the re-prompt did not correct.
C9_Witness ==
    /\ pc = "raised"
    /\ phase = VOTING
    /\ exception = "RuntimeError"
    /\ vote_target = ActiveIds[idx]
    /\ Len(votes_this_round) = 1

\* --------------------------------------------------------------------- C10
VotesFor(t) == Cardinality({i \in 1..Len(votes_this_round) : votes_this_round[i].vote = t})

TopTargets ==
    {t \in 1..config.num_players :
        /\ VotesFor(t) >= 1
        /\ \A u \in 1..config.num_players : VotesFor(u) <= VotesFor(t)}

\* C10: a tally is reached only when every active player has voted, and
\* when it eliminates it appends exactly one player, one of the targets
\* with the maximum vote count of the sub-round: the only one when the
\* maximum is unique, one of the tied set otherwise.
C10_TallyEliminatesTop ==
    pc = "tally" =>
        /\ Len(votes_this_round) = Len(active_players)
        /\ (votes_this_round # <<>> =>
              /\ Len(eliminated_players') = Len(eliminated_players) + 1
              /\ SubSeq(eliminated_players', 1, Len(eliminated_players))
                    = eliminated_players
              /\ Last(eliminated_players') \in TopTargets
              /\ emitted'[1].type = "elimination"
              /\ emitted'[1].eliminated_player = Last(eliminated_players'))

C10_EliminatedHasMaxVotes == [][C10_TallyEliminatesTop]_vars

\* A sub-round of three voters that ended two votes to one: the target with
\* two votes was eliminated.
C10_Witness ==
    /\ emitted # <<>>
    /\ emitted[1].type = "elimination"
    /\ Len(votes_this_round) = 3
    /\ Cardinality(TopTargets) = 1
    /\ VotesFor(Last(eliminated_players)) = 2

\* --------------------------------------------------------------------- C11
AfterVoting == pc \in {"calculate_results", "complete", "done"}

\* C11: the voting phase never starts a sub-round beyond the K-th: the
\* sub-round counter and the sub-round of every recorded vote lie in 1..K.
C11_SubRoundsBounded ==
    /\ voting_round >= 0
    /\ (voting_round > 0 => voting_round <= config.num_imposters)
    /\ \A i \in 1..Len(sequential_votes) :
          sequential_votes[i].voting_round \in 1..config.num_imposters
    /\ (InSubRound => voting_round \in 1..config.num_imposters)

\* C11: the tally that completes a sub-round eliminates exactly one
\* player, an active one; when the win check on the new eliminated list
\* reports game over the voting loop ends, otherwise it goes on to
\* sub-round voting_round + 1 if that is at most K; once the loop has ended
\* no sub-round starts, no vote is recorded and nobody is eliminated.
C11_TallyStep ==
    pc = "tally" =>
        /\ /\ Len(eliminated_players') = Len(eliminated_players) + 1
              /\ SubSeq(eliminated_players', 1, Len(eliminated_players))
                    = eliminated_players
              /\ Last(eliminated_players') \in Range(ActiveIds)
              /\ emitted'[1].type = "elimination"
              /\ emitted'[1].voting_round = voting_round
        /\ IF (eliminated_players' # eliminated_players
                    /\ WinCheck(eliminated_players').game_over)
                 \/ voting_round >= config.num_imposters
           THEN pc' = "calculate_results" /\ voting_round' = voting_round
           ELSE pc' = "voting_round_start" /\ voting_round' = voting_round + 1

\* C11: once the voting loop has ended no sub-round starts, no vote is
\* recorded and nobody is eliminated.
C11_AfterVotingStep ==
    AfterVoting =>
        /\ pc' \in {"complete", "done"}
        /\ emitted' = <<>>
        /\ UNCHANGED <<voting_round, sequential_votes, votes_this_round,
                       eliminated_players, request>>

\* C11: at most K sub-rounds run, each completed sub-round eliminates
\* exactly one player, and the sub-rounds after a decided win check do not
\* run.
C11_AtMostKSubRounds ==
    []C11_SubRoundsBounded /\ [][C11_TallyStep /\ C11_AfterVotingStep]_vars

\* Four players, two imposters: sub-round 1 voted out a civilian, the win
\* check gave the game to the imposters and sub-round 2 did not start.
C11_Witness ==
    /\ pc = "calculate_results"
    /\ config.num_players = 4
    /\ config.num_imposters = 2
    /\ voting_round = 1
    /\ emitted # <<>>
    /\ emitted[1].type = "elimination"
    /\ ~emitted[1].was_imposter
    /\ Len(votes_this_round) = 4

\* --------------------------------------------------------------------- C12
\* The eliminated list, after at least one elimination, makes the win check
\* report game over.
DecidedByElimination ==
    /\ players # <<>>
    /\ eliminated_players # <<>>
    /\ WinCheck(eliminated_players).game_over

\* C12: in a game with 0 < K < N, once an elimination (instant reveal or
\* vote) has made the win check report game over, no clue turn or vote is
\* dispatched (no model call is in flight) and no step eliminates a
\* further player.
C12_NoTurnOnceDecided ==
    (ValidImposterCount /\ DecidedByElimination) => request = NoRequest

C12_NoEliminationOnceDecided ==
    (ValidImposterCount /\ DecidedByElimination) =>
        eliminated_players' = eliminated_players

C12_WinCheckAfterEveryElimination ==
    []C12_NoTurnOnceDecided /\ [][C12_NoEliminationOnceDecided]_vars

\* --------------------------------------------------------------------- C13
\* The player whose model call is in flight.
PlayerInCall == IF pc = "clue_await" THEN players[idx].player_id
                ELSE ActiveIds[idx]

\* C13: a step in which the clue call or the first vote call of a player
\* ends the run emits exactly one event, an error carrying that player's
\* id with recoverable = FALSE, raises RuntimeError and leaves the clues,
\* votes, eliminations, histories and phase as they were.
C13_FailureStep ==
    (pc \in {"clue_await", "vote_await"} /\ pc' = "raised") =>
        /\ Len(emitted') = 1
        /\ emitted'[1].type = "error"
        /\ emitted'[1].player_id = PlayerInCall
        /\ emitted'[1].recoverable = FALSE
        /\ exception' = "RuntimeError"
        /\ UNCHANGED <<all_clues, all_votes, sequential_votes, votes_this_round,
                       eliminated_players, conversation_history, phase,
                       current_round, round_num, result>>

\* C13: after the raise nothing more happens: no step is taken, the phase
\* is not COMPLETE, there is no GameResult and no model call in flight.
C13_Raised ==
    pc = "raised" =>
        /\ phase # COMPLETE
        /\ phase # REVEAL
        /\ result = NoResult
        /\ request = NoRequest
        /\ exception \in {"RuntimeError", "ValueError"}

C13_TerminalFailureIsFatal ==
    /\ []C13_Raised
    /\ [][C13_FailureStep /\ pc # "raised"]_vars

\* The clue call of the second player failed after the first player's clue
\* was recorded.
C13_Witness ==
    /\ pc = "raised"
    /\ phase = CLUE_ROUND
    /\ idx = 2
    /\ Len(all_clues) = 1
    /\ emitted = <<[type |-> "error", player_id |-> 2, recoverable |-> FALSE]>>

\* --------------------------------------------------------------------- C14
CaseFold(ch) == IF ch = "A" THEN "a" ELSE IF ch = "B" THEN "b"
                ELSE IF ch = "C" THEN "c" ELSE ch

\* The two texts have the same characters up to casing.
SameIgnoringCase(s, t) ==
    Len(s) = Len(t) /\ \A i \in 1..Len(s) : CaseFold(s[i]) = CaseFold(t[i])

ValidateClueReturned == call.fn = "validate_clue" /\ returned # NoReturn

\* C14: validate_clue on a clue that equals the secret word up to casing
\* returns valid = FALSE with reason word_match, instant_reveal = TRUE and
\* game_over = FALSE for an imposter, game_over = TRUE and instant_reveal =
\* FALSE for a non-imposter; on no input are both flags TRUE.
C14_ExactMatchVerdict ==
    ValidateClueReturned =>
        /\ SameIgnoringCase(call.clue, call.secret_word) =>
              /\ returned.valid = FALSE
              /\ returned.reason = "word_match"
              /\ returned.instant_reveal = (call.role = IMPOSTER)
              /\ returned.game_over = (call.role = NON_IMPOSTER)
        /\ ~(returned.instant_reveal /\ returned.game_over)

\* validate_clue has returned for the imposter clue "abba" on the word "Abba".
C14_Witness ==
    /\ ValidateClueReturned
    /\ call.clue = <<"a", "b", "b", "a">>
    /\ call.secret_word = <<"A", "b", "b", "a">>
    /\ call.role = IMPOSTER
    /\ returned.instant_reveal

\* --------------------------------------------------------------------- C15
\* needle occurs in hay as a contiguous run of characters, up to casing.
OccursIn(needle, hay) ==
    \E k \in 0..(Len(hay) - Len(needle)) :
        \A i \in 1..Len(needle) : CaseFold(hay[k + i]) = CaseFold(needle[i])

\* s without its leading and trailing spaces.
Trimmed(s) ==
    LET inked == {i \in 1..Len(s) : s[i] # " "}
    IN IF inked = {} THEN <<>>
       ELSE SubSeq(s, CHOOSE i \in inked : \A j \in inked : i <= j,
                      CHOOSE i \in inked : \A j \in inked : i >= j)

ContainmentApplies(clue, secret_word) ==
    /\ Len(secret_word) > 3
    /\ OccursIn(secret_word, clue) \/ OccursIn(clue, secret_word)

PartialVerdict(r) ==
    /\ r.valid = FALSE
    /\ r.reason = "partial_word_match"
    /\ r.game_over = FALSE
    /\ r.instant_reveal = FALSE

\* C15 as stated: for every clue that differs from the secret word by more
\* than casing, validate_clue returns the partial_word_match verdict
\* exactly when the word is longer than 3 characters and one text contains
\* the other up to casing.
C15_PartialUnlessSameText ==
    (ValidateClueReturned /\ ~SameIgnoringCase(call.clue, call.secret_word)) =>
        (PartialVerdict(returned)
            <=> ContainmentApplies(call.clue, call.secret_word))

\* C15, amended: the exact-match rule, applied first, compares the two
\* texts up to casing and surrounding whitespace; for every clue it does
\* not catch, validate_clue returns the partial_word_match verdict exactly
\* when the word as given is longer than 3 characters and one text
\* contains the other up to casing, and otherwise finds the clue valid (so
\* containment never invalidates a clue for a word of 3 characters or fewer).
C15_PartialUnlessExact ==
    ValidateClueReturned =>
        IF SameIgnoringCase(Trimmed(call.clue), Trimmed(call.secret_word))
        THEN returned.reason = "word_match"
        ELSE /\ PartialVerdict(returned)
                   <=> ContainmentApplies(call.clue, call.secret_word)
             /\ returned.valid
                   <=> ~ContainmentApplies(call.clue, call.secret_word)
             /\ returned.reason # "word_match"

\* validate_clue has returned partial_word_match for the clue "bb" on the
\* word "Abba".
C15_Witness ==
    /\ ValidateClueReturned
    /\ call.clue = <<"b", "b">>
    /\ call.secret_word = <<"A", "b", "b", "a">>
    /\ PartialVerdict(returned)

\* --------------------------------------------------------------------- C16
\* The step ends a clue turn whose response carried a clue that a recorded
\* clue equals up to casing.
RepeatsRecordedClue ==
    /\ ClueTurnEnds
    /\ emitted'[1].type \in {"clue", "validation_error"}
    /\ \E i \in 1..Len(all_clues) :
          SameIgnoringCase(all_clues[i].clue, emitted'[1].clue)

\* C16: a clue that equals, up to casing, a clue recorded earlier in the
\* game (any round, any player) is rejected with a validation_error and
\* nothing else happens: no record, no elimination, no early end, and the
\* loop goes on to the next player.
C16_DuplicateStep ==
    RepeatsRecordedClue =>
        /\ emitted'[1].type = "validation_error"
        /\ Len(emitted') = 1
        /\ UNCHANGED <<all_clues, conversation_history, eliminated_players,
                       game_ended_early>>
        /\ idx' = idx + 1
        /\ pc' \in {"clue_turn", "round_end"}

\* C16: no two records of the clue log have the same text up to casing.
C16_LogHasNoRepeat ==
    \A i, j \in 1..Len(all_clues) :
        SameIgnoringCase(all_clues[i].clue, all_clues[j].clue) => i = j

C16_DuplicateCluesRejected ==
    []C16_LogHasNoRepeat /\ [][C16_DuplicateStep]_vars

\* In round 2 the clue "bB" was rejected because "Bb" was recorded in
\* round 1.
C16_Witness ==
    /\ current_round = 2
    /\ emitted # <<>>
    /\ emitted[1].type = "validation_error"
    /\ emitted[1].clue = <<"b", "B">>
    /\ emitted[1].reason = "duplicate_clue"
    /\ \E i \in 1..Len(all_clues) :
          all_clues[i].round = 1 /\ all_clues[i].clue = <<"B", "b">>

\* --------------------------------------------------------------------- C17
CheckWinReturned == call.fn = "check_win_condition" /\ returned # NoReturn

SurvivingImposterSet == Range(call.all_imposters) \ Range(call.eliminated_players)

RemainingCivilianSet ==
    ((1..MaxCallPlayers) \ Range(call.all_imposters))
        \ Range(call.eliminated_players)

\* C17: check_win_condition returns civilians as winner exactly when no
\* imposter survives; otherwise imposters exactly when the surviving
\* imposters are at least as many as the civilians not eliminated;
\* otherwise no winner and game_over = FALSE.  The winner is set exactly
\* when game_over is TRUE, and the returned eliminated and surviving
\* imposter lists are disjoint and together hold exactly the imposters.
C17_WinCondition ==
    CheckWinReturned =>
        /\ (returned.winner = "civilians") <=> (SurvivingImposterSet = {})
        /\ (returned.winner = "imposters") <=>
              /\ SurvivingImposterSet # {}
              /\ Cardinality(SurvivingImposterSet) >= Cardinality(RemainingCivilianSet)
        /\ returned.game_over <=> (returned.winner # "None")
        /\ returned.winner \in {"civilians", "imposters", "None"}
        /\ Range(returned.eliminated_imposters)
              \cap Range(returned.surviving_imposters) = {}
        /\ Range(returned.eliminated_imposters)
              \cup Range(returned.surviving_imposters) = Range(call.all_imposters)
        /\ Range(returned.surviving_imposters) = SurvivingImposterSet

\* check_win_condition has returned for two imposters of which one is
\* eliminated together with a civilian: one imposter against one civilian,
\* the imposters win.
C17_Witness ==
    /\ CheckWinReturned
    /\ call.all_imposters = <<1, 2>>
    /\ call.eliminated_players = <<1, 3>>
    /\ returned.winner = "imposters"
    /\ returned.eliminated_imposters = <<1>>
    /\ returned.surviving_imposters = <<2>>

\* --------------------------------------------------------------------- C18
ResolveTieReturned == call.fn = "resolve_vote_tie" /\ returned # NoReturn

\* The ids of TieIds in the order of their texts: "Player_1", "Player_10",
\* "Player_2", "Player_3".
IdsInTextOrder == <<1, 10, 2, 3>>

TextRank(p) == CHOOSE k \in 1..Len(IdsInTextOrder) : IdsInTextOrder[k] = p

FirstByText(ids) == CHOOSE p \in ids : \A q \in ids : TextRank(p) <= TextRank(q)

\* C18: under method "first" resolve_vote_tie returns the id of the tied
\* list whose text is lexicographically first; that is the only value the
\* call can return, and every other listing of the same tied ids returns
\* the same one.
C18_FirstPolicy ==
    (ResolveTieReturned /\ call.method = "first") =>
        /\ returned.value = FirstByText(Range(call.tied_players))
        /\ resolve_vote_tie(call.tied_players, "first") = {returned.value}
        /\ \A l \in TiedListings :
              Range(l) = Range(call.tied_players) =>
                  resolve_vote_tie(l, "first") = {returned.value}

\* resolve_vote_tie has returned Player_10 for the tie listed as Player_3,
\* Player_2, Player_10 under method "first".
C18_Witness ==
    /\ ResolveTieReturned
    /\ call.method = "first"
    /\ call.tied_players = <<3, 2, 10>>
    /\ returned.value = 10

\* --------------------------------------------------------------------- C19
\* The players the tally of this state can eliminate.
TallyOutcomes ==
    {e \in 1..config.num_players :
        ENABLED (Tally /\ eliminated_players' = Append(eliminated_players, e))}

\* What the clue turn in flight can do to the eliminated list and the
\* early-end flag when the model returns this response.
ClueOutcomes(response) ==
    {o \in (0..config.num_players) \X BOOLEAN :
        ENABLED (/\ ClueCallReturns(response)
                 /\ game_ended_early' = o[2]
                 /\ eliminated_players' =
                       IF o[1] = 0 THEN eliminated_players
                       ELSE Append(eliminated_players, o[1]))}

\* The model assignments initialize_game can give the players, for a given
\* imposter set.
AssignmentOutcomes(imposter_ids) ==
    ModelAssignments(PlayerIds(config.num_players), imposter_ids)

\* The GameResults _calculate_results can return in this state.
ResultOutcomes ==
    {CalculateResult(all_eliminated) :
        all_eliminated \in UNION {AllEliminated(v) : v \in LegacyVotes}}

\* A tally of a sub-round in which votes were cast can eliminate one player
\* only, tie or no tie.
C19_TallyHasOneOutcome ==
    (pc = "tally" /\ votes_this_round # <<>>) => Cardinality(TallyOutcomes) = 1

\* The players' models, which the events and the ClueRecords carry, are
\* fixed by the configuration and the imposter set.
C19_AssignmentHasOneOutcome ==
    (pc = "run_game"
        /\ ~SampleRaises(PlayerIds(config.num_players), config.num_imposters)) =>
        \A imposter_ids \in random_sample(PlayerIds(config.num_players),
                                          config.num_imposters) :
            Cardinality(AssignmentOutcomes(imposter_ids)) = 1

\* The GameResult is fixed by the state of the engine at the end of the
\* game.
C19_ResultHasOneOutcome ==
    pc = "calculate_results" => Cardinality(ResultOutcomes) = 1

\* C19: the outcome is a function of the configuration, the imposter set
\* and the responses: the model assignment, every clue turn, every tally
\* (tie or no tie) and the GameResult have one possible outcome each, so
\* that two runs on the same inputs give the same eliminations, events and
\* GameResult.
C19_SameInputsSameOutcome ==
    /\ C19_AssignmentHasOneOutcome
    /\ pc = "clue_await" =>
          \A response \in ClueResponses : Cardinality(ClueOutcomes(response)) = 1
    /\ C19_TallyHasOneOutcome
    /\ C19_ResultHasOneOutcome

\* --------------------------------------------------------------------- C20
ImposterSet == {i \in 1..Len(players) : players[i].role = IMPOSTER}

\* C20: the detection_accuracy of the GameResult is the number of distinct
\* eliminated players that are imposters over the number of imposters, a
\* ratio between 0 and 1 with a positive denominator; it is 0 when there
\* is no imposter.
C20_DetectionAccuracy ==
    pc \in {"complete", "done"} =>
        LET caught == ImposterSet \cap Range(eliminated_players)
            accuracy == result.detection_accuracy
        IN /\ accuracy[2] > 0
           /\ 0 <= accuracy[1] /\ accuracy[1] <= accuracy[2]
           /\ IF ImposterSet = {}
              THEN accuracy[1] = 0
              ELSE /\ accuracy[1] = Cardinality(caught)
                   /\ accuracy[2] = Cardinality(ImposterSet)

\* A finished game in which one imposter is on the eliminated list twice
\* (revealed in both rounds) and the other was not caught: accuracy 1/2.
C20_Witness ==
    /\ pc = "done"
    /\ Len(eliminated_players) = 3
    /\ eliminated_players[1] = eliminated_players[2]
    /\ Cardinality(ImposterSet \cap Range(eliminated_players)) = 1
    /\ result.detection_accuracy = <<1, 2>>

\* --------------------------------------------------------------------- C21
\* C21: the GameResult carries the full history: all_clues is the clue log
\* as recorded, and all_votes holds every vote recorded during the voting
\* sub-rounds (voter, target and sub-round), in the order recorded.
C21_ResultCarriesHistory ==
    pc \in {"complete", "done"} =>
        /\ result.all_clues = all_clues
        /\ Len(result.all_votes) = Len(sequential_votes)
        /\ \A i \in 1..Len(sequential_votes) :
              /\ result.all_votes[i].player_id = sequential_votes[i].player_id
              /\ result.all_votes[i].voted_for = sequential_votes[i].voted_for
              /\ result.all_votes[i].voting_round = sequential_votes[i].voting_round

\* --------------------------------------------------------------------- C24
\* The clue breaks one of the validator's rules on the log as it stands:
\* it is the word (up to casing and surrounding spaces), it contains or is
\* contained in a word longer than 3 characters, or it repeats a recorded
\* clue.
FailsValidation(clue) ==
    \/ SameIgnoringCase(Trimmed(clue), Trimmed(config.word))
    \/ ContainmentApplies(clue, config.word)
    \/ \E i \in 1..Len(all_clues) : SameIgnoringCase(all_clues[i].clue, clue)

\* The step is the return of the model call of a clue turn.
ClueResponseHandled == pc = "clue_await" /\ pc' \in {"clue_turn", "round_end"}

\* C24: every handled clue response yields first a clue event or a
\* validation_error event of the player at turn; it is a validation_error
\* (with the clue and a reason) exactly when the clue fails validation, and
\* then neither the clue log nor any conversation history changes.
C24_ResponseStep ==
    ClueResponseHandled =>
        /\ emitted' # <<>>
        /\ emitted'[1].type \in {"clue", "validation_error"}
        /\ emitted'[1].player_id = players[idx].player_id
        /\ (emitted'[1].type = "validation_error")
              <=> FailsValidation(emitted'[1].clue)
        /\ emitted'[1].type = "validation_error" =>
              /\ emitted'[1].reason \in
                    {"word_match", "partial_word_match", "duplicate_clue"}
              /\ UNCHANGED <<all_clues, conversation_history>>

\* C24: a request in flight shows only recorded clues, and a player's
\* conversation history holds that player's recorded clues and nothing else.
C24_OnlyRecordedCluesShown ==
    /\ pc = "clue_await" =>
          LET shown == Last(request).content.previous_clues
          IN /\ Len(shown) = Len(all_clues)
             /\ \A i \in 1..Len(shown) : shown[i].clue = all_clues[i].clue
    /\ \A p \in 1..Len(conversation_history) :
          LET own == SelectSeq(all_clues, LAMBDA c : c.player_id = p)
          IN /\ Len(conversation_history[p]) = Len(own)
             /\ \A i \in 1..Len(own) :
                   conversation_history[p][i].content.clue = own[i].clue

C24_InvalidCluesAudited ==
    []C24_OnlyRecordedCluesShown /\ [][C24_ResponseStep]_vars

\* A clue was rejected as a partial match after a clue had been recorded,
\* and the next turn is about to start.
C24_Witness ==
    /\ pc = "clue_turn"
    /\ all_clues # <<>>
    /\ emitted # <<>>
    /\ emitted[1].type = "validation_error"
    /\ emitted[1].reason = "partial_word_match"

\* --------------------------------------------------------------------- C26
\* s is an initial part of t.
IsPrefix(s, t) == Len(s) <= Len(t) /\ SubSeq(t, 1, Len(s)) = s

\* C26: a step that records a clue appends the serialized response to the
\* history of the player who gave it and to no other; a step that records
\* a vote appends the voter's serialized response to the voter's history
\* and to no other; every history only grows.
C26_RecordStep ==
    /\ Len(all_clues') > Len(all_clues) =>
          LET c == Last(all_clues')
          IN \A p \in 1..Len(conversation_history) :
                conversation_history'[p] =
                    IF p = c.player_id
                    THEN Append(conversation_history[p],
                                [role |-> "assistant",
                                 content |-> [thinking |-> c.thinking,
                                              clue |-> c.clue,
                                              confidence |-> c.confidence]])
                    ELSE conversation_history[p]
    /\ Len(sequential_votes') > Len(sequential_votes) =>
          LET v == Last(sequential_votes')
          IN \A p \in 1..Len(conversation_history) :
                IF p = v.player_id
                THEN /\ Len(conversation_history'[p]) =
                            Len(conversation_history[p]) + 1
                     /\ Last(conversation_history'[p]).role = "assistant"
                     /\ Last(conversation_history'[p]).content.vote = v.voted_for
                ELSE conversation_history'[p] = conversation_history[p]
    /\ \A p \in 1..Len(conversation_history) :
          IsPrefix(conversation_history[p], conversation_history'[p])

C26_ResponsesJoinOwnHistory == [][C26_RecordStep]_vars

\* --------------------------------------------------------------------- C27
\* The prompt of the call in flight: the user message built for the turn
\* (a corrective re-prompt adds two messages after it).
TurnPrompt ==
    LET built == {i \in 1..Len(request) :
                     /\ request[i].role = "user"
                     /\ request[i].content.kind \in {"clue", "vote"}}
    IN request[CHOOSE i \in built : TRUE].content

\* The votes recorded so far in the sub-round under way, as the prompt
\* shows them: voter, target and the one-sentence public reasoning.
VotesOfSubRound ==
    LET cast == SelectSeq(sequential_votes,
                          LAMBDA v : v.voting_round = voting_round)
    IN [i \in 1..Len(cast) |->
           [player_id |-> cast[i].player_id, vote |-> cast[i].voted_for,
            reasoning |-> cast[i].reasoning]]

\* C27: a request in flight for a player holds, of the other players'
\* responses, only (round, player id, clue) of the recorded clues and, in a
\* vote request, the eliminated ids and (voter, target, reasoning) of the
\* votes cast earlier in the sub-round; the only messages with a thinking
\* or a confidence are the player's own recorded responses.
C27_NoPrivateFieldsOfOthers ==
    request # NoRequest =>
        LET p == PlayerInCall
            prompt == TurnPrompt
            clues == IF prompt.kind = "clue" THEN prompt.previous_clues
                     ELSE prompt.all_clues
            private == SelectSeq(request,
                           LAMBDA m : \/ "thinking" \in DOMAIN m.content
                                      \/ "confidence" \in DOMAIN m.content)
            own == SelectSeq(all_clues, LAMBDA c : c.player_id = p)
        IN /\ prompt.player_id = p
           /\ Len(clues) = Len(all_clues)
           /\ \A i \in 1..Len(clues) :
                 clues[i] = [round |-> all_clues[i].round,
                             player_id |-> all_clues[i].player_id,
                             clue |-> all_clues[i].clue]
           /\ prompt.kind = "vote" =>
                 /\ prompt.eliminated_players = eliminated_players
                 /\ prompt.previous_votes_this_round = VotesOfSubRound
           /\ private = conversation_history[p]
           /\ Len(private) = Len(own)
           /\ \A i \in 1..Len(own) :
                 /\ private[i].role = "assistant"
                 /\ private[i].content.clue = own[i].clue

\* A vote request in flight for the second voter of a sub-round, who gave
\* one of the two recorded clues.
C27_Witness ==
    /\ pc = "vote_await"
    /\ Len(votes_this_round) = 1
    /\ Len(all_clues) = 2
    /\ conversation_history[PlayerInCall] # <<>>
    /\ \E i \in 1..Len(all_clues) : all_clues[i].player_id # PlayerInCall

\* --------------------------------------------------------------------- C28
\* The secret words of the games compared: the configured one and two
\* others of the same category.
ComparedWords == SecretWords \cup {<<"c", "a", "b">>, <<"b", "B", "c", "c">>}

\* The player of the call in flight as a game with secret word w creates it.
PlayerInCallWith(w) ==
    LET created == AIPlayer(PlayerInCall, ImposterSet, w,
                            players[PlayerInCall].model_name)
    IN [PlayerAt(PlayerInCall) EXCEPT !.secret_word = created.secret_word]

\* The request the engine builds at this point of a game that has secret
\* word w and the same clue log, eliminations, votes and histories.
RequestWith(w) ==
    LET clue_request ==
            build_clue_messages(
                PlayerInCallWith(w),
                [current_round |-> current_round, clues_so_far |-> get_clue_dicts])
        vote_request ==
            build_single_vote_messages(
                PlayerInCallWith(w), get_clue_dicts, eliminated_players,
                votes_this_round, w)
    IN IF pc = "clue_await" THEN clue_request
       ELSE IF pc = "vote_await" THEN vote_request
       ELSE CorrectionMessages(vote_request, vote_target,
                               ValidTargets(PlayerInCall))

\* C28: the request in flight for an imposter is the same whatever the
\* secret word of the game, the clue log, eliminated list, votes and
\* histories being equal; and no recorded clue is the secret word up to
\* casing.
C28_WordKeptFromImposters ==
    /\ (request # NoRequest /\ PlayerInCall \in ImposterSet) =>
          \A w \in ComparedWords : request = RequestWith(w)
    /\ \A i \in 1..Len(all_clues) :
          ~SameIgnoringCase(all_clues[i].clue, config.word)

\* A vote request is in flight for an imposter, with a civilian's clue in
\* the log and a vote already cast.
C28_Witness ==
    /\ pc = "vote_await"
    /\ PlayerInCall \in ImposterSet
    /\ votes_this_round # <<>>
    /\ \E i \in 1..Len(all_clues) : all_clues[i].player_id \notin ImposterSet

\* --------------------------------------------------------------------- C29
\* C29: the vote request in flight for the voter at idx lists exactly the
\* votes of the voters before it in the sub-round under way, in voting
\* order, none of its own, none of another sub-round, together with the
\* eliminated list.
C29_RequestShowsEarlierVotes ==
    pc \in {"vote_await", "vote_retry_await"} =>
        LET prompt == TurnPrompt
            shown == prompt.previous_votes_this_round
        IN /\ prompt.player_id = ActiveIds[idx]
           /\ prompt.voting_round = voting_round
           /\ shown = VotesOfSubRound
           /\ Len(shown) = idx - 1
           /\ \A i \in 1..Len(shown) :
                 /\ shown[i].player_id = ActiveIds[i]
                 /\ shown[i].player_id # ActiveIds[idx]
           /\ prompt.eliminated_players = eliminated_players

\* C29: the eliminated list and the voters of a sub-round are fixed when
\* the sub-round starts (the list the voting_round_start event shows) and
\* do not change while its voters vote, one after another.
C29_SubRoundStep ==
    /\ pc = "voting_round_start" =>
          /\ emitted'[1].eliminated_so_far = eliminated_players
          /\ eliminated_players' = eliminated_players
    /\ pc \in {"vote_turn", "vote_await", "vote_retry_await"} =>
          /\ eliminated_players' = eliminated_players
          /\ active_players' = active_players
          /\ idx' \in {idx, idx + 1}
          /\ pc' = "vote_turn" => idx' <= Len(active_players)

C29_SequentialVotes ==
    []C29_RequestShowsEarlierVotes /\ [][C29_SubRoundStep]_vars

\* The second voter of the second sub-round has its request in flight.
C29_Witness ==
    /\ pc = "vote_await"
    /\ voting_round = 2
    /\ idx = 2
    /\ Len(sequential_votes) > Len(votes_this_round)
    /\ Len(Last(request).content.previous_votes_this_round) = 1

\* --------------------------------------------------------------------- C30
\* C30: the eliminated list is append-only: every step, an instant reveal
\* in a clue round or an elimination in a voting sub-round included, leaves
\* the list as it was or adds entries at its end.
C30_EliminatedAppendOnly ==
    [][IsPrefix(eliminated_players, eliminated_players')]_vars

\* The voting phase is over with three entries on the list: the instant
\* reveals of the two clue rounds first, the player voted out after them.
C30_Witness ==
    /\ pc = "calculate_results"
    /\ Len(eliminated_players) = 3
    /\ sequential_votes # <<>>
    /\ eliminated_players[3] = Last(ActiveIds)
    /\ eliminated_players[1] # eliminated_players[3]

\* --------------------------------------------------------------------- C22
\* The events of the streamed game so far, in the order the consumer gets
\* them: those already yielded, then those waiting on the queue (without
\* the None that ends the stream).
StreamHistory ==
    SelectSeq(delivered \o event_queue, LAMBDA e : e # EndOfStream)

\* C22: in the event stream, a clue or validation_error event comes right
\* after the player_thinking event of the same player's clue turn, so
\* before the next player's; an instant_reveal comes right after the
\* validation_error that caused it; a vote event comes after the
\* voting_round_start of its sub-round and before that sub-round's
\* elimination event.
C22_StreamInOrder ==
    LET h == StreamHistory
    IN \A k \in 1..Len(h) :
          /\ h[k].type \in {"clue", "validation_error"} =>
                /\ k > 1
                /\ h[k - 1].type = "player_thinking"
                /\ h[k - 1].action = "clue"
                /\ h[k - 1].player_id = h[k].player_id
          /\ (h[k].type = "player_thinking" /\ h[k].action = "clue"
                /\ \E j \in (k + 1)..Len(h) : h[j].type = "player_thinking") =>
                /\ h[k + 1].type \in {"clue", "validation_error"}
                /\ h[k + 1].player_id = h[k].player_id
          /\ h[k].type = "instant_reveal" =>
                /\ k > 1
                /\ h[k - 1].type = "validation_error"
                /\ h[k - 1].player_id = h[k].player_id
          /\ h[k].type = "vote" =>
                /\ \E i \in 1..(k - 1) :
                      /\ h[i].type = "voting_round_start"
                      /\ h[i].voting_round = h[k].voting_round
                /\ \A i \in 1..(k - 1) :
                      ~(/\ h[i].type = "elimination"
                        /\ h[i].voting_round = h[k].voting_round)
          /\ h[k].type = "elimination" =>
                \E i \in 1..(k - 1) :
                    /\ h[i].type = "vote"
                    /\ h[i].voting_round = h[k].voting_round

\* C22: while a model call is in flight, the latest event of the stream is
\* the player_thinking event of the player called.
C22_ThinkingBeforeCall ==
    request # NoRequest =>
        LET h == StreamHistory
        IN /\ h # <<>>
           /\ Last(h).type = "player_thinking"
           /\ Last(h).player_id = PlayerInCall

\* C22: the events the engine hands to its callback in a step join the
\* stream at its end, in the order handed over; the consumer gets the
\* events one at a time, each the oldest not yet delivered.
C22_DeliveryStep ==
    /\ (event_callback = "emit_event" /\ delivered' = delivered
          /\ pc' # pc /\ pc' # "cancelled") =>
          IsPrefix(StreamHistory \o emitted', StreamHistory')
    /\ delivered' # delivered =>
          /\ delivered' = Append(delivered, Head(event_queue))
          /\ StreamHistory' = StreamHistory

C22_EventsInChronologicalOrder ==
    /\ []C22_StreamInOrder
    /\ []C22_ThinkingBeforeCall
    /\ [][C22_DeliveryStep]_vars

\* The whole stream of a game was delivered: an instant reveal in the clue
\* round and an elimination in the voting phase among its events.
C22_Witness ==
    /\ generator = "returned"
    /\ \E k \in 1..Len(delivered) : delivered[k].type = "instant_reveal"
    /\ \E k \in 1..Len(delivered) : delivered[k].type = "elimination"
    /\ Last(delivered).type = "game_complete"

\* --------------------------------------------------------------------- C23
\* The places in the stream of a fatal clue violation: the validation_error
\* of a non-imposter who said the secret word.
FatalViolations ==
    {k \in 1..Len(StreamHistory) :
        /\ StreamHistory[k].type = "validation_error"
        /\ StreamHistory[k].reason = "word_match"
        /\ players[StreamHistory[k].player_id].role = NON_IMPOSTER}

\* The round under way at place k of the stream: that of the latest
\* round_start event before k.
RoundAt(k) ==
    LET starts == {i \in 1..k : StreamHistory[i].type = "round_start"}
    IN StreamHistory[CHOOSE i \in starts : \A j \in starts : j <= i].round

\* C23: in a streamed game, after a fatal clue violation in round r the
\* stream has no round_start, no voting_start, no vote and no elimination
\* event, and its game_complete event reports total_rounds = r.
C23_StreamEndsAtFatalClue ==
    FatalViolations # {} =>
        LET first == CHOOSE k \in FatalViolations :
                         \A j \in FatalViolations : k <= j
        IN \A j \in (first + 1)..Len(StreamHistory) :
              /\ StreamHistory[j].type \notin
                    {"round_start", "voting_start", "vote", "elimination"}
              /\ StreamHistory[j].type = "game_complete" =>
                    StreamHistory[j].total_rounds = RoundAt(first)

\* --------------------------------------------------------------------- C25
\* The consumer of the stream was cancelled.
ConsumerCancelled == generator \in {"cancelled", "closed"}

\* C25: once the consumer was cancelled, the game task is cancelled (or had
\* finished) and no model call is in flight.
C25_GameTaskCancelled ==
    (ConsumerCancelled /\ ~CancelRequested) =>
        /\ pc \in {"cancelled", "stream_done"}
        /\ request = NoRequest

\* C25: once the consumer was cancelled, no step dispatches a model call
\* or records a clue, a vote or an elimination: what was recorded stays as
\* it was.
C25_NothingAfterCancel ==
    ConsumerCancelled =>
        /\ request' = NoRequest
        /\ UNCHANGED <<all_clues, sequential_votes, eliminated_players,
                       conversation_history>>

C25_CancelStopsTheGame ==
    []C25_GameTaskCancelled /\ [][C25_NothingAfterCancel]_vars

\* --------------------------------------------------------------------- C31
\* The error messages that name an invalid model, a missing authorization
\* or an invalid api key.
PermanentErrors ==
    {<<"x/y", "is", "not", "a", "valid", "model", "ID">>,
     <<"Unauthorized">>, <<"Invalid", "API", "key">>}

\* C31: call never makes more than max_retries attempts, and a value is
\* returned only by an attempt.
C31_AttemptsBounded ==
    call.fn = "call" =>
        /\ attempt <= call.max_retries
        /\ (returned # NoReturn /\ "value" \in DOMAIN returned) => attempt >= 1

\* C31: a successful attempt returns at once; a failed attempt with a
\* non-retryable error raises that error at once; any other failed attempt
\* goes on to the next attempt or, if it was the last, to raising the last
\* error; once call has returned or raised nothing more is attempted.
C31_AttemptStep ==
    call.fn = "call" =>
        /\ returned # NoReturn => UNCHANGED <<attempt, returned, last_error>>
        /\ attempt' = attempt + 1 =>
              IF "value" \in DOMAIN returned'
              THEN last_error' = last_error
              ELSE /\ last_error' \in ErrorMessages
                   /\ IF last_error' \in PermanentErrors
                      THEN returned' = [raised |-> last_error']
                      ELSE returned' = NoReturn
        /\ (returned = NoReturn /\ attempt = call.max_retries) =>
              /\ "raised" \in DOMAIN returned'
              /\ attempt' = attempt
              /\ call.max_retries > 0 => returned'.raised = last_error

C31_BoundedRetry == []C31_AttemptsBounded /\ [][C31_AttemptStep]_vars

\* call(max_retries=3) raised the error of its third attempt after two
\* other transient failures.
C31_Witness ==
    /\ call.fn = "call"
    /\ call.max_retries = 3
    /\ attempt = 3
    /\ returned = [raised |-> <<"Rate", "limit", "exceeded">>]

\* --------------------------------------------------------------------- C32
AssignModelsReturned == call.fn = "_assign_models" /\ returned # NoReturn

\* How many players the assignment gives model m.
TimesAssigned(assignments, m) ==
    Cardinality({pid \in DOMAIN assignments : assignments[pid] = m})

\* How many entries of the pool are model m.
TimesInPool(pool, m) == Cardinality({i \in 1..Len(pool) : pool[i] = m})

\* The configured distribution expanded in order (the default distribution
\* when none is configured), padded with the default model up to the N
\* players and cut to its first N entries.
ExpectedPool ==
    LET items == DistributionAsConfigured(call.model_distribution)
        expanded == ExpandDistribution(items)
        n == Len(call.player_ids)
        padded == [i \in 1..n |-> IF i <= Len(expanded) THEN expanded[i]
                                  ELSE call.default_model]
    IN padded

\* C32: _assign_models gives every player exactly one model: the default
\* model under 'single' and under an unknown strategy, "haiku" to imposters
\* and "llama" to the others under 'role-based', and under 'mixed' as many
\* players per model as the expected pool has entries of it.
C32_AssignmentByStrategy ==
    AssignModelsReturned =>
        LET assignments == returned.value
            models == Range(ExpectedPool) \cup {assignments[pid] : pid \in DOMAIN assignments}
        IN /\ DOMAIN assignments = Range(call.player_ids)
           /\ call.model_strategy \in {"single", "round-robin"} =>
                 \A pid \in DOMAIN assignments :
                     assignments[pid] = call.default_model
           /\ call.model_strategy = "role-based" =>
                 \A pid \in DOMAIN assignments :
                     assignments[pid] =
                        IF pid \in Range(call.imposter_ids) THEN "haiku" ELSE "llama"
           /\ call.model_strategy = "mixed" =>
                 \A m \in models :
                     TimesAssigned(assignments, m) = TimesInPool(ExpectedPool, m)

\* --------------------------------------------------------------------- C33
\* C33: in the batch engine the clue request of a player is built after the
\* clues of the players before it in the same round were appended to the
\* clue log: the request of every player carries a clue of the current
\* round for each player that precedes it.
C33_BatchTurnsSeeEarlierClues ==
    (call.fn = "batch_call" /\ call.response_format = "ClueResponse") =>
        \A i \in 1..Len(call.requests) : \A j \in 1..(i - 1) :
            \E k \in 1..Len(call.requests[i].context.clues_so_far) :
                LET seen == call.requests[i].context.clues_so_far[k]
                IN /\ seen.round = call.requests[i].context.current_round
                   /\ seen.player_id = players[j].player_id

\* --------------------------------------------------------------------- C34
\* The entries of the batch in hand that the recording loop has passed.
BatchHandled ==
    IF pc \in {"batch_clue_record", "batch_vote_record"}
    THEN 1..(idx - 1)
    ELSE IF returned = NoReturn THEN {} ELSE 1..Len(returned.value)

\* C34: in the batch engine no ClueRecord and no VoteRecord is recorded for
\* a player whose model call of the batch failed, and a run in which a call
\* failed does not go on to the results.
C34_NoSubstitutedResponse ==
    call.fn = "batch_call" =>
        /\ \A i \in BatchHandled :
              IsException(returned.value[i]) =>
                 IF call.response_format = "ClueResponse"
                 THEN \A k \in 1..Len(all_clues) :
                         ~(/\ all_clues[k].round = current_round
                           /\ all_clues[k].player_id = players[i].player_id)
                 ELSE \A k \in 1..Len(all_votes) :
                         all_votes[k].player_id # players[i].player_id
        /\ pc \in {"batch_results", "done"} =>
              \A i \in 1..Len(returned.value) : ~IsException(returned.value[i])

\* --------------------------------------------------------------------- C35
\* C35: no player id appears more than once in eliminated_players.
C35_EliminatedOnce ==
    \A i, j \in 1..Len(eliminated_players) :
        eliminated_players[i] = eliminated_players[j] => i = j

\* --------------------------------------------------------------------- C36
\* C36: in a game with at least one imposter and fewer imposters than
\* players, every voting sub-round that has started has at least two active
\* players, and every one of them has a valid target.
C36_SubRoundsHaveTargets ==
    (/\ 1 <= config.num_imposters
     /\ config.num_imposters < config.num_players
     /\ phase = VOTING
     /\ pc \in {"vote_turn", "vote_await", "tally"}) =>
        /\ Len(active_players) >= 2
        /\ \A i \in 1..Len(active_players) :
              ValidTargets(ActiveIds[i]) # <<>>

\* --------------------------------------------------------------------- C37
\* C37: whatever stream requests are made for a game, its engine has, once
\* initialized, exactly num_players players, with distinct ids.
C37_OneRunPerEngine ==
    players # <<>> =>
        /\ Len(players) = config.num_players
        /\ \A i, j \in 1..Len(players) :
              players[i].player_id = players[j].player_id => i = j

\* --------------------------------------------------------------------- C38
\* C38: every run of run_game ends: it returns a GameResult with the phase
\* COMPLETE, or it raises.
C38_RunGameTerminates ==
    <>(\/ pc = "raised" /\ exception # "None"
       \/ pc = "done" /\ phase = COMPLETE /\ result # NoResult)

\* A game that went through a retried vote and an elimination has returned.
C38_Witness ==
    /\ pc = "done"
    /\ phase = COMPLETE
    /\ result # NoResult
    /\ current_round = MaxRounds
    /\ eliminated_players # <<>>
    /\ \E i \in 1..Len(sequential_votes) : sequential_votes[i].voted_for # 0

\* --------------------------------------------------------------------- C39
\* C39: the clue log has at most one record per round and player, its
\* records are in the order of the rounds and, within a round, of the
\* players, every round is one of 1..num_rounds, and so the log never has
\* more than num_players * num_rounds records.
C39_ClueLogOrdered ==
    /\ \A i \in 1..Len(all_clues) :
          /\ all_clues[i].round \in 1..config.num_rounds
          /\ all_clues[i].round <= current_round
          /\ all_clues[i].player_id \in 1..config.num_players
    /\ \A i, j \in 1..Len(all_clues) :
          i < j =>
             \/ all_clues[i].round < all_clues[j].round
             \/ /\ all_clues[i].round = all_clues[j].round
                /\ all_clues[i].player_id < all_clues[j].player_id
    /\ Len(all_clues) <= config.num_players * config.num_rounds

\* The log holds clues of two rounds, two of them by the same player.
C39_Witness ==
    \E i, j \in 1..Len(all_clues) :
        /\ all_clues[i].round = 1
        /\ all_clues[j].round = 2
        /\ all_clues[i].player_id = all_clues[j].player_id

\* --------------------------------------------------------------------- C40
\* How many items of a sequence are of a given event type.
CountOfType(events, type) ==
    Cardinality({i \in 1..Len(events) : events[i].type = type})

\* C40: once the run of a stream is over (normally or by a fatal error) the
\* None that ends the stream was queued exactly once and is the last item
\* queued; game_complete was queued at most once; and the stream does not
\* hold both a game_complete and an error event.
C40_OneEndOfStream ==
    pc = "stream_done" =>
        /\ CountOfType(event_queue, EndOfStream.type)
              + (IF generator = "returned" THEN 1 ELSE 0) = 1
        /\ event_queue # <<>> => Last(event_queue) = EndOfStream
        /\ CountOfType(StreamHistory, "game_complete") <= 1
        /\ ~(/\ CountOfType(StreamHistory, "game_complete") >= 1
             /\ CountOfType(StreamHistory, "error") >= 1)

====
